---- MODULE Spec2Model ----
(***************************************************************************)
(* TokyoGTFS: the train block solver (TrainParser.blocks), the after-      *)
(* midnight correction of stop times (TrainParser.trips, BusParser.trips), *)
(* the GTFS time value (TimeValue), the calendars (CalendarHandler, with   *)
(* the postprocessing of trips and stop times) and TrainTripIterator.      *)
(***************************************************************************)
EXTENDS Integers, Sequences, FiniteSets, TLC

VARIABLES
    trains,           \* blocks(): the trips TrainTripIterator yields, by trip id
    through_trains,   \* blocks(): trips with a previous or a next reference
    undef_trains,     \* blocks(): trips with neither
    trains_in_block,  \* blocks(): the component being collected, in insertion order
    fetch_trips,      \* blocks(): ids still to fetch into the component
    block_id,         \* blocks(): the block id counter
    split_train_id,   \* blocks(): the local of that name (unbound until a split is solved)
    train_blocks,     \* self.train_blocks
    pc,               \* position in blocks()
    error,            \* the exception that left blocks(), if any
    run,              \* how many times blocks() has been started on this input
    first_result,     \* the partition the first run ended with (second run only)
    walk_train_id,    \* blocks(): prev_train_id / next_train_id of a walk that turns in a circle
    stop_times,       \* trips(): the entries of the trip's timetable walked so far
    times,            \* trips(): the rows emitted for the trip
    prev_departure,   \* trips(): the running previous departure
    wpc,              \* position in the walk of trips()
    clock_in,         \* the string handed to TimeValue.from_str
    clock_out,        \* str() of the TimeValue it returned
    cpc,              \* position of the conversion
    tv_self,          \* the TimeValue an operator is applied to
    tv_other,         \* the operator's other operand, in seconds
    tv_result,        \* what the operator returned
    tv_op,            \* the operator applied last
    tv_n,             \* how many operators have been applied
    calendars,        \* the Calendar source: the days each listed calendar id gives
    start_weekday,    \* self.start.weekday()
    holidays,         \* self.holidays
    valid,            \* self.valid
    special,          \* self.special
    used,             \* self.used, in insertion order
    outputted,        \* self.outputted
    calendar_dates,   \* the rows of gtfs/calendar_dates.txt
    route_idx,        \* export(): position in self.used.items()
    working_date,     \* export(): the local of that name
    use_args,         \* the arguments of the last call of use()
    use_ret,          \* what the last call of use() returned
    use_n,            \* how many trips trips() has read
    trips_txt,        \* the rows of gtfs/trips.txt
    stop_times_txt,   \* the rows of gtfs/stop_times.txt
    remove_trips,     \* self.remove_trips
    kpc,              \* position in parse(), from trips() on
    kerror,           \* the exception that left export(), if any
    odpt_trips,       \* TrainTripIterator: the TrainTimetable source
    trip_idx,         \* TrainTripIterator: position of the for loop in the source
    parsed_trips,     \* TrainTripIterator: the local of that name
    yielded,          \* the trips TrainTripIterator has yielded, in order
    ipc,              \* position in TrainTripIterator
    bus_source,       \* BusParser.trips(): odpt:busTimetableObject as the source lists it
    bus_timetable,    \* BusParser.trips(): the same, sorted and filtered
    bus_idx,          \* BusParser.trips(): position of the loop over the timetable
    bus_prev,         \* BusParser.trips(): prev_departure
    bus_times,        \* BusParser.trips(): the rows written for the trip
    bpc,              \* position in the body of BusParser.trips() for one trip
    berror            \* the exception that left BusParser.trips(), if any

blockVars == <<trains, through_trains, undef_trains, trains_in_block, fetch_trips,
               block_id, split_train_id, train_blocks, pc, error, run, first_result,
               walk_train_id>>

walkVars == <<stop_times, times, prev_departure, wpc>>

clockVars == <<clock_in, clock_out, cpc>>

timeVars == <<tv_self, tv_other, tv_result, tv_op, tv_n>>

calVars == <<calendars, start_weekday, holidays, valid, special, used, outputted,
             calendar_dates, route_idx, working_date, use_args, use_ret, use_n,
             trips_txt, stop_times_txt, remove_trips, kpc, kerror>>

\* The parts modelled on their own, further down.
iterVars == <<odpt_trips, trip_idx, parsed_trips, yielded, ipc>>

busVars == <<bus_source, bus_timetable, bus_idx, bus_prev, bus_times, bpc, berror>>

restVars == <<timeVars, calVars, iterVars, busVars>>

\* What a step of blocks() leaves alone.
notBlocks == <<walkVars, clockVars, restVars>>

\* What a step of the walk of trips() leaves alone.
notWalk == <<blockVars, clockVars, restVars>>

\* What a conversion leaves alone.
notClock == <<blockVars, walkVars, restVars>>

\* What an operator of TimeValue leaves alone.
notTime == <<blockVars, walkVars, clockVars, calVars, iterVars, busVars>>

\* What a step of the calendar handling leaves alone.
notCal == <<blockVars, walkVars, clockVars, timeVars, iterVars, busVars>>

\* What a step of TrainTripIterator leaves alone.
notIter == <<blockVars, walkVars, clockVars, timeVars, calVars, busVars>>

\* What a step of BusParser.trips() leaves alone.
notBus == <<blockVars, walkVars, clockVars, timeVars, calVars, iterVars>>

vars == <<blockVars, walkVars, clockVars, restVars>>

-----------------------------------------------------------------------------
(* Small helpers over sequences and sets.                                  *)

Range(s) == {s[i] : i \in 1..Len(s)}

InSeq(x, s) == \E i \in 1..Len(s) : s[i] = x

Remove(s, x) == SelectSeq(s, LAMBDA y : y # x)

Min(S) == CHOOSE x \in S : \A y \in S : x <= y

Max(S) == CHOOSE x \in S : \A y \in S : x >= y

-----------------------------------------------------------------------------
(* Trip ids, stations and the trip records blocks() loads.                 *)

TripIds == {"A", "B", "C", "D", "E", "F", "G", "H"}

\* An id no trip of the input carries (a reference that dangles).
Dangling == "Z"

Unbound == "unbound"

NoError == "none"

\* What blocks() keeps of one trip (static_trains.py:430-434), plus the
\* origins the loading loop looks at.
Trip(prev, next, dest) ==
    [previous |-> prev, next |-> next, destination |-> dest, origins |-> <<>>]

\* Values of self.train_blocks: a plain block id, or a list of
\* (block id, destination) pairs; Absent stands for "key not in the dict".
Absent == [list |-> FALSE, id |-> 0, pairs |-> <<>>]

Single(b) == [list |-> FALSE, id |-> b, pairs |-> <<>>]

List(ps) == [list |-> TRUE, id |-> 0, pairs |-> ps]

\* The destination of the pairs a merge records.
None == <<>>

-----------------------------------------------------------------------------
(* The inputs of blocks(): what TrainTripIterator yields.                  *)

\* Bounds of the exhaustive family of small inputs.
MaxEdges == 4

SmallIds == {"A", "B", "C"}

Stations == {"X", "Y"}

\* In the small family the destinations are fixed per trip id: A declares
\* none, B declares X and C declares Y (every role a trip can play is still
\* covered, because the references range over all ids).
SmallDest(t) == IF t = "A" THEN <<>> ELSE IF t = "B" THEN <<"X">> ELSE <<"Y">>

SeqsUpTo2(S) ==
    {<<>>} \cup {<<x>> : x \in S}
           \cup {<<x, y>> : <<x, y>> \in {p \in S \X S : p[1] # p[2]}}

\* The previous/next lists trip t may declare: ids of the other small trips
\* and the dangling id.
RefSeqs(t) == SeqsUpTo2((SmallIds \ {t}) \cup {Dangling})

Edges(rec) == Len(rec.previous) + Len(rec.next)

TripRecs(t, budget) ==
    {Trip(pn[1], pn[2], SmallDest(t)) :
        pn \in {q \in RefSeqs(t) \X RefSeqs(t) : Len(q[1]) + Len(q[2]) <= budget}}

\* The lists of f that name the dangling id.
DanglingLists(f) ==
    {<<t, "previous">> : t \in {u \in DOMAIN f : Dangling \in Range(f[u].previous)}}
        \cup {<<t, "next">> : t \in {u \in DOMAIN f : Dangling \in Range(f[u].next)}}

\* An input over the trips A, B, C.
SmallInput(a, b, c) == ("A" :> a) @@ ("B" :> b) @@ ("C" :> c)

\* f is one of the small inputs: the trips A, B, C with at most MaxEdges
\* references, at most one of them dangling.
IsSmallInput(f) ==
    \E a \in TripRecs("A", MaxEdges) :
        \E b \in TripRecs("B", MaxEdges - Edges(a)) :
            \E c \in TripRecs("C", MaxEdges - Edges(a) - Edges(b)) :
                /\ f = SmallInput(a, b, c)
                /\ Cardinality(DanglingLists(f)) <= 1

\* Well-formed components over three ids, every reference declared on both
\* sides (the shapes of the docstring of blocks(), static_trains.py:351-371).
Chain3(x, y, z) ==
    (x :> Trip(<<>>, <<y>>, <<>>)) @@ (y :> Trip(<<x>>, <<z>>, <<>>))
                                   @@ (z :> Trip(<<y>>, <<>>, <<>>))

Split3(x, y, z) ==
    (x :> Trip(<<>>, <<y, z>>, <<>>)) @@ (y :> Trip(<<x>>, <<>>, <<"X">>))
                                      @@ (z :> Trip(<<x>>, <<>>, <<"Y">>))

Merge3(x, y, z) ==
    (x :> Trip(<<>>, <<z>>, <<>>)) @@ (y :> Trip(<<>>, <<z>>, <<>>))
                                   @@ (z :> Trip(<<x, y>>, <<>>, <<>>))

\* A chain declared through nextTrainTimetable only.
NextOnly3(x, y, z) ==
    (x :> Trip(<<>>, <<y>>, <<>>)) @@ (y :> Trip(<<>>, <<z>>, <<>>))
                                   @@ (z :> Trip(<<>>, <<>>, <<>>))

\* A component in which x splits and z merges: x -> {y, z}, y -> z.
SplitMerge3(x, y, z) ==
    (x :> Trip(<<>>, <<y, z>>, <<>>)) @@ (y :> Trip(<<x>>, <<z>>, <<"X">>))
                                      @@ (z :> Trip(<<x, y>>, <<>>, <<"Y">>))

Shapes(x, y, z) ==
    {Chain3(x, y, z), Split3(x, y, z), Merge3(x, y, z), NextOnly3(x, y, z)}

\* Two components in one input.
TwoComponents ==
    {f @@ g : <<f, g>> \in Shapes("A", "B", "C") \X Shapes("D", "E", "F")}

\* A split with a trunk trip upstream and a trip downstream on each branch:
\* D -> A -> {B -> E, C -> F}.
SplitTrunk ==
    ("D" :> Trip(<<>>, <<"A">>, <<>>))
    @@ ("A" :> Trip(<<"D">>, <<"B", "C">>, <<>>))
    @@ ("B" :> Trip(<<"A">>, <<"E">>, <<"X">>))
    @@ ("E" :> Trip(<<"B">>, <<>>, <<"X">>))
    @@ ("C" :> Trip(<<"A">>, <<"F">>, <<"Y">>))
    @@ ("F" :> Trip(<<"C">>, <<>>, <<"Y">>))

\* Its mirror: {E -> B, F -> C} -> A -> D.
MergeTrunk ==
    ("D" :> Trip(<<"A">>, <<>>, <<>>))
    @@ ("A" :> Trip(<<"B", "C">>, <<"D">>, <<>>))
    @@ ("B" :> Trip(<<"E">>, <<"A">>, <<>>))
    @@ ("E" :> Trip(<<>>, <<"B">>, <<>>))
    @@ ("C" :> Trip(<<"F">>, <<"A">>, <<>>))
    @@ ("F" :> Trip(<<>>, <<"C">>, <<>>))

\* A trip declaring three next trips.
Split4 ==
    ("A" :> Trip(<<>>, <<"B", "C", "D">>, <<>>))
    @@ ("B" :> Trip(<<"A">>, <<>>, <<"X">>))
    @@ ("C" :> Trip(<<"A">>, <<>>, <<"Y">>))
    @@ ("D" :> Trip(<<"A">>, <<>>, <<"X">>))

\* A trip declaring three previous trips.
Merge4 ==
    ("A" :> Trip(<<"B", "C", "D">>, <<>>, <<>>))
    @@ ("B" :> Trip(<<>>, <<"A">>, <<>>))
    @@ ("C" :> Trip(<<>>, <<"A">>, <<>>))
    @@ ("D" :> Trip(<<>>, <<"A">>, <<>>))

\* The source data often declares a reference on one side only: f with the
\* previous (or next) list of trip t emptied.
DropPrevious(f, t) == [f EXCEPT ![t].previous = <<>>]

DropNext(f, t) == [f EXCEPT ![t].next = <<>>]

OneSided(f) ==
    {DropPrevious(f, t) : t \in DOMAIN f} \cup {DropNext(f, t) : t \in DOMAIN f}

\* A linked trip with two origins and two destinations (static_trains.py:418).
WithOrigins(f, t) ==
    [f EXCEPT ![t].origins = <<"X", "Y">>, ![t].destination = <<"X", "Y">>]

\* A split whose trunk turns back on itself: {D <-> E} -> D -> A -> {B, C}.
SplitTrunkCycle ==
    ("A" :> Trip(<<"D">>, <<"B", "C">>, <<>>))
    @@ ("B" :> Trip(<<"A">>, <<>>, <<"X">>))
    @@ ("C" :> Trip(<<"A">>, <<>>, <<"Y">>))
    @@ ("D" :> Trip(<<"E">>, <<"A">>, <<>>))
    @@ ("E" :> Trip(<<"D">>, <<"D">>, <<>>))

\* Its mirror, {B, C} -> A -> D -> {D <-> E}, next to a split F -> {G, H}
\* (a merge solved before any split ends in UnboundLocalError).
MergeTailCycle ==
    Split3("F", "G", "H")
    @@ ("A" :> Trip(<<"B", "C">>, <<"D">>, <<>>))
    @@ ("B" :> Trip(<<>>, <<"A">>, <<>>))
    @@ ("C" :> Trip(<<>>, <<"A">>, <<>>))
    @@ ("D" :> Trip(<<"A">>, <<"E">>, <<>>))
    @@ ("E" :> Trip(<<"D">>, <<"D">>, <<>>))

\* A chain whose last trip names a trip the input does not hold.
DanglingChain ==
    ("A" :> Trip(<<>>, <<"B">>, <<>>)) @@ ("B" :> Trip(<<"A">>, <<Dangling>>, <<>>))

\* Two splitting trips in one component: A -> {B, C}, B -> {D, E}.
TwoSplits ==
    ("A" :> Trip(<<>>, <<"B", "C">>, <<>>))
    @@ ("B" :> Trip(<<"A">>, <<"D", "E">>, <<"X">>))
    @@ ("C" :> Trip(<<"A">>, <<>>, <<"Y">>))
    @@ ("D" :> Trip(<<"B">>, <<>>, <<"X">>))
    @@ ("E" :> Trip(<<"B">>, <<>>, <<"Y">>))

\* Two merging trips in one component: {D, E} -> B, {B, C} -> A.
TwoMerges ==
    ("A" :> Trip(<<"B", "C">>, <<>>, <<>>))
    @@ ("B" :> Trip(<<"D", "E">>, <<"A">>, <<>>))
    @@ ("C" :> Trip(<<>>, <<"A">>, <<>>))
    @@ ("D" :> Trip(<<>>, <<"B">>, <<>>))
    @@ ("E" :> Trip(<<>>, <<"B">>, <<>>))

LargeInputs ==
    TwoComponents \cup {SplitTrunk, MergeTrunk, Split4, Merge4}
        \cup {SplitTrunkCycle, MergeTailCycle, DanglingChain, TwoSplits, TwoMerges}
        \cup OneSided(SplitTrunk) \cup OneSided(MergeTrunk)
        \cup OneSided(Split3("A", "B", "C") @@ Chain3("D", "E", "F"))
        \cup {SplitMerge3("A", "B", "C") @@ Chain3("D", "E", "F")}
        \cup {WithOrigins(Chain3("A", "B", "C"), "B"),
              WithOrigins(NextOnly3("A", "B", "C"), "C")}

-----------------------------------------------------------------------------
(* blocks(): loading (static_trains.py:382-434).                           *)

Known == DOMAIN trains

\* "Trains with absolutely no nextTrainTimetable and previousTrainTimetable
\* cannot belong to any blocks."
Isolated(t) == trains[t].next = <<>> /\ trains[t].previous = <<>>

\* Mutant of LoadRejects: only origins and destinations are checked.
LoadRejectsOrigins(t) ==
    /\ ~Isolated(t)
    /\ Len(trains[t].origins) > 1 /\ Len(trains[t].destination) > 1

\* The two checks a linked trip has to pass while it is loaded.
LoadRejects(t) ==
    /\ ~Isolated(t)
    /\ \/ Len(trains[t].origins) > 1 /\ Len(trains[t].destination) > 1
       \/ Len(trains[t].next) > 1 /\ Len(trains[t].previous) > 1

NoBlocks == [t \in TripIds |-> Absent]

\* The parts of the program a behaviour does not run stay as they are here.
IdleBlocks ==
    /\ trains = <<>>
    /\ through_trains = {}
    /\ undef_trains = {}
    /\ trains_in_block = <<>>
    /\ fetch_trips = {}
    /\ block_id = 0
    /\ split_train_id = Unbound
    /\ train_blocks = <<>>
    /\ pc = "idle"
    /\ error = NoError
    /\ run = 0
    /\ first_result = {}
    /\ walk_train_id = Unbound

IdleWalk ==
    /\ stop_times = <<>>
    /\ times = <<>>
    /\ prev_departure = <<>>
    /\ wpc = "idle"

IdleClock ==
    /\ clock_in = <<>>
    /\ clock_out = <<>>
    /\ cpc = "idle"

IdleTime ==
    /\ tv_self = <<>>
    /\ tv_other = 0
    /\ tv_result = <<>>
    /\ tv_op = "idle"
    /\ tv_n = 0

IdleCal ==
    /\ calendars = <<>>
    /\ start_weekday = 0
    /\ holidays = {}
    /\ valid = {}
    /\ special = <<>>
    /\ used = <<>>
    /\ outputted = {}
    /\ calendar_dates = {}
    /\ route_idx = 0
    /\ working_date = 0
    /\ use_args = <<>>
    /\ use_ret = <<>>
    /\ use_n = 0
    /\ trips_txt = {}
    /\ stop_times_txt = {}
    /\ remove_trips = {}
    /\ kpc = "idle"
    /\ kerror = NoError

IdleIter ==
    /\ odpt_trips = <<>>
    /\ trip_idx = 0
    /\ parsed_trips = {}
    /\ yielded = <<>>
    /\ ipc = "idle"

IdleBus ==
    /\ bus_source = <<>>
    /\ bus_timetable = <<>>
    /\ bus_idx = 0
    /\ bus_prev = <<>>
    /\ bus_times = <<>>
    /\ bpc = "idle"
    /\ berror = NoError

IdleRest == IdleTime /\ IdleCal /\ IdleIter /\ IdleBus

InitBlocks ==
    /\ IdleWalk
    /\ IdleClock
    /\ IdleRest
    /\ \/ IsSmallInput(trains)
       \/ trains \in LargeInputs
    /\ through_trains = {}
    /\ undef_trains = {}
    /\ trains_in_block = <<>>
    /\ fetch_trips = {}
    /\ block_id = 0
    /\ split_train_id = Unbound
    /\ train_blocks = NoBlocks
    /\ pc = "load"
    /\ error = NoError
    /\ run = 1
    /\ first_result = {}
    /\ walk_train_id = Unbound

\* The loading loop: every trip goes to undef_trains or through_trains.
Load ==
    /\ pc = "load"
    /\ \A t \in Known : ~LoadRejects(t)
    /\ through_trains' = {t \in Known : ~Isolated(t)}
    /\ undef_trains' = {t \in Known : Isolated(t)}
    /\ pc' = "solve"
    /\ UNCHANGED <<trains, trains_in_block, fetch_trips, block_id, split_train_id,
                   train_blocks, error, run, first_result,
                   walk_train_id>>
    /\ UNCHANGED notBlocks

\* The loading loop raises DataAssertion at the first trip it rejects.
LoadRaise ==
    /\ pc = "load"
    /\ \E t \in Known : LoadRejects(t)
    /\ pc' = "raised"
    /\ error' = "DataAssertion"
    /\ UNCHANGED <<trains, through_trains, undef_trains, trains_in_block, fetch_trips,
                   block_id, split_train_id, train_blocks, run, first_result,
                   walk_train_id>>
    /\ UNCHANGED notBlocks

-----------------------------------------------------------------------------
(* blocks(): collecting one component (static_trains.py:437-487).          *)

\* The trips still in through_trains (given as tt) that reference trip.
AdditionalTrips(tt, trip) ==
    {i \in tt : trip \in Range(trains[i].previous) \/ trip \in Range(trains[i].next)}

\* fetch_trips after trip has been fetched; tt is through_trains after the
\* pop, tib is trains_in_block with trip added.
NextFetch(ft, tt, tib, trip) ==
    (ft \cup Range(trains[trip].previous) \cup Range(trains[trip].next)
        \cup AdditionalTrips(tt, trip)) \ Range(tib)

\* through_trains.popitem(): the insertion order of through_trains is the
\* order of the source stream, which is arbitrary, so any trip may come first.
PopItem ==
    /\ pc = "solve"
    /\ through_trains # {}
    /\ \E main_trip \in through_trains :
          /\ through_trains' = through_trains \ {main_trip}
          /\ trains_in_block' = <<main_trip>>
          /\ fetch_trips' = Range(trains[main_trip].previous)
                               \cup Range(trains[main_trip].next)
    /\ block_id' = block_id + 1
    /\ pc' = "fetch"
    /\ UNCHANGED <<trains, undef_trains, split_train_id, train_blocks, error, run,
                   first_result,
                   walk_train_id>>
    /\ UNCHANGED notBlocks

\* Mutant of Fetch: the trip is read from its dict, not popped from it.
FetchKeeps ==
    /\ pc = "fetch"
    /\ \E trip \in fetch_trips :
          /\ trip \in through_trains \cup undef_trains
          /\ trains_in_block' = Append(trains_in_block, trip)
          /\ fetch_trips' = NextFetch(fetch_trips \ {trip}, through_trains,
                                      trains_in_block', trip)
    /\ UNCHANGED <<trains, through_trains, undef_trains, block_id, split_train_id,
                   train_blocks, pc, error, run, first_result,
                   walk_train_id>>
    /\ UNCHANGED notBlocks

\* One round of "while fetch_trips" that finds the trip; set.pop() yields
\* an arbitrary member.
Fetch ==
    /\ pc = "fetch"
    /\ \E trip \in fetch_trips :
          /\ trip \in through_trains \cup undef_trains
          /\ through_trains' = through_trains \ {trip}
          /\ undef_trains' = IF trip \in through_trains THEN undef_trains
                                                        ELSE undef_trains \ {trip}
          /\ trains_in_block' = Append(trains_in_block, trip)
          /\ fetch_trips' = NextFetch(fetch_trips \ {trip}, through_trains',
                                      trains_in_block', trip)
    /\ UNCHANGED <<trains, block_id, split_train_id, train_blocks, pc, error, run,
                   first_result,
                   walk_train_id>>
    /\ UNCHANGED notBlocks

\* One round that finds the trip in neither dict: failed_fetch, the component
\* is given up and the solving loop continues.
FetchFail ==
    /\ pc = "fetch"
    /\ \E trip \in fetch_trips : trip \notin through_trains \cup undef_trains
    /\ fetch_trips' = {}
    /\ pc' = "solve"
    /\ UNCHANGED <<trains, through_trains, undef_trains, trains_in_block, block_id,
                   split_train_id, train_blocks, error, run, first_result,
                   walk_train_id>>
    /\ UNCHANGED notBlocks

-----------------------------------------------------------------------------
(* blocks(): the shape of a collected component (static_trains.py:489-509).*)

max_merges(tib) == Max({Len(trains[t].previous) : t \in Range(tib)})

max_splits(tib) == Max({Len(trains[t].next) : t \in Range(tib)})

Collected == pc = "fetch" /\ fetch_trips = {}

IsLinear(tib) == max_splits(tib) = 1 /\ max_merges(tib) = 1

\* Mutant of IsBoth: only a single trip that both splits and merges counts.
IsBothOneTrip(tib) ==
    \E t \in Range(tib) : Len(trains[t].next) > 1 /\ Len(trains[t].previous) > 1

IsBoth(tib) == max_splits(tib) > 1 /\ max_merges(tib) > 1

IsSplit(tib) == ~IsLinear(tib) /\ ~IsBoth(tib) /\ max_splits(tib) > 1

IsMerge(tib) == ~IsLinear(tib) /\ ~IsBoth(tib) /\ ~IsSplit(tib) /\ max_merges(tib) > 1

\* Mutant of LinearAssign: only the trip popitem() yielded gets block_id.
LinearAssignMain(tb, tib, bid) == [tb EXCEPT ![tib[1]] = Single(bid)]

\* Linear block: every trip of the component gets block_id.
LinearAssign(tb, tib, bid) ==
    [t \in TripIds |-> IF t \in Range(tib) THEN Single(bid) ELSE tb[t]]

ResolveLinear ==
    /\ Collected
    /\ IsLinear(trains_in_block)
    /\ train_blocks' = LinearAssign(train_blocks, trains_in_block, block_id)
    /\ pc' = "solve"
    /\ UNCHANGED <<trains, through_trains, undef_trains, trains_in_block, fetch_trips,
                   block_id, split_train_id, error, run, first_result,
                   walk_train_id>>
    /\ UNCHANGED notBlocks

\* "Both split & merge": DataAssertion.
ResolveBoth ==
    /\ Collected
    /\ IsBoth(trains_in_block)
    /\ pc' = "raised"
    /\ error' = "DataAssertion"
    /\ UNCHANGED <<trains, through_trains, undef_trains, trains_in_block, fetch_trips,
                   block_id, split_train_id, train_blocks, run, first_result,
                   walk_train_id>>
    /\ UNCHANGED notBlocks

\* No branch of the if/elif chain applies (no trip of the component declares a
\* previous trip, or none declares a next trip): nothing is assigned.
ResolveNothing ==
    /\ Collected
    /\ ~IsLinear(trains_in_block) /\ ~IsBoth(trains_in_block)
    /\ ~IsSplit(trains_in_block) /\ ~IsMerge(trains_in_block)
    /\ pc' = "solve"
    /\ UNCHANGED <<trains, through_trains, undef_trains, trains_in_block, fetch_trips,
                   block_id, split_train_id, train_blocks, error, run, first_result,
                   walk_train_id>>
    /\ UNCHANGED notBlocks

\* through_trains is empty: blocks() returns.
Return ==
    /\ pc = "solve"
    /\ through_trains = {}
    /\ pc' = "done"
    /\ UNCHANGED <<trains, through_trains, undef_trains, trains_in_block, fetch_trips,
                   block_id, split_train_id, train_blocks, error, run, first_result,
                   walk_train_id>>
    /\ UNCHANGED notBlocks

-----------------------------------------------------------------------------
(* blocks(): a splitting train (static_trains.py:509-607).                 *)

\* The member of a one-element set; {e(x) : x \in {v}} has v worked out once
\* however often e names x.
Only(S) == CHOOSE x \in S : TRUE

\* What a walk leaves behind: self.train_blocks, trains_in_block, block_id
\* and the exception that ended it ("Hang" when the walk comes back to a
\* trip it has tagged and so never ends).
Outcome(tb, tib, bid, err) == [tb |-> tb, tib |-> tib, bid |-> bid, err |-> err]

\* list.append of pair on self.train_blocks[t], created empty when absent.
AppendPair(tb, t, pair) == [tb EXCEPT ![t] = List(Append(tb[t].pairs, pair))]

\* self.train_blocks[t] holds a plain block id: .append raises AttributeError.
HoldsId(tb, t) == tb[t] # Absent /\ ~tb[t].list

\* The first trip of trains_in_block, in insertion order, that lists t in
\* field f ("previous" or "next"); <<>> when there is none.
FirstReferring(tib, t, f) ==
    LET hits == {i \in 1..Len(tib) :
                    t \in Range(IF f = "previous" THEN trains[tib[i]].previous
                                                  ELSE trains[tib[i]].next)}
    IN  IF hits = {} THEN <<>> ELSE <<tib[Min(hits)]>>

\* "Add block_id to trips after split, while popping them from
\* trains_in_block" (lines 543-564); t has already been popped from tib.
RECURSIVE BranchForward(_, _, _, _)
BranchForward(tb, tib, t, bid) ==
    LET tb1 == [tb EXCEPT ![t] = Single(bid)]
        nxt == IF trains[t].next # <<>> THEN <<trains[t].next[1]>>
               ELSE FirstReferring(tib, t, "previous")
    IN  IF nxt = <<>> THEN Outcome(tb1, tib, bid, NoError)
        ELSE IF ~InSeq(nxt[1], tib) THEN Outcome(tb1, tib, bid, "KeyError")
        ELSE BranchForward(tb1, Remove(tib, nxt[1]), nxt[1], bid)

\* "Add block_id to trips before split" (lines 582-605): nothing is popped,
\* so a walk that comes back to a trip it has visited never ends.
RECURSIVE TrunkBackward(_, _, _, _, _)
TrunkBackward(tb, tib, t, pair, seen) ==
    IF t \in seen THEN Outcome(tb, tib, pair[1], "Hang")
    ELSE IF HoldsId(tb, t) THEN Outcome(tb, tib, pair[1], "AttributeError")
    ELSE
    LET tb1 == AppendPair(tb, t, pair)
        prv == IF trains[t].previous # <<>> THEN <<trains[t].previous[1]>>
               ELSE FirstReferring(tib, t, "next")
    IN  IF prv = <<>> THEN Outcome(tb1, tib, pair[1], NoError)
        ELSE IF ~InSeq(prv[1], tib) THEN Outcome(tb1, tib, pair[1], "KeyError")
        ELSE TrunkBackward(tb1, tib, prv[1], pair, seen \cup {t})

\* The loop over split_train_data["next"] (lines 528-607), from its i-th
\* entry on; sid has already been popped from tib.
RECURSIVE SplitBranches(_, _, _, _, _)
SplitBranches(tb, tib, bid, sid, i) ==
    IF i > Len(trains[sid].next) THEN Outcome(tb, tib, bid, NoError)
    ELSE
    LET first == trains[sid].next[i]
        destination == trains[first].destination
    IN  IF ~InSeq(first, tib) THEN Outcome(tb, tib, bid, "KeyError")
        ELSE IF destination = <<>> THEN Outcome(tb, tib, bid, "DataAssertion")
        ELSE
        Only({
            IF fwd.err # NoError THEN fwd
            ELSE IF HoldsId(fwd.tb, sid)
                 THEN Outcome(fwd.tb, fwd.tib, bid, "AttributeError")
            ELSE
            LET tb2 == AppendPair(fwd.tb, sid, <<bid, destination>>)
            IN  IF trains[sid].previous = <<>>
                THEN SplitBranches(tb2, fwd.tib, bid + 1, sid, i + 1)
                ELSE IF ~InSeq(trains[sid].previous[1], fwd.tib)
                     THEN Outcome(tb2, fwd.tib, bid, "KeyError")
                ELSE
                Only({IF bwd.err # NoError THEN bwd
                      ELSE SplitBranches(bwd.tb, fwd.tib, bid + 1, sid, i + 1) :
                      bwd \in {TrunkBackward(tb2, fwd.tib, trains[sid].previous[1],
                                             <<bid, destination>>, {})}}) :
            fwd \in {BranchForward(tb, Remove(tib, first), first, bid)}})

\* The trips of the component that declare more than one next trip.
SplitTrains(tib) == {t \in Range(tib) : Len(trains[t].next) > 1}

\* More than one splitting train: DataAssertion.
ResolveSplitRaise ==
    /\ Collected
    /\ IsSplit(trains_in_block)
    /\ Cardinality(SplitTrains(trains_in_block)) > 1
    /\ pc' = "raised"
    /\ error' = "DataAssertion"
    /\ UNCHANGED <<trains, through_trains, undef_trains, trains_in_block, fetch_trips,
                   block_id, split_train_id, train_blocks, run, first_result,
                   walk_train_id>>
    /\ UNCHANGED notBlocks

\* The trip a walk over field f ("previous" or "next") reads after t: the
\* first entry of t's own list, else the first trip of trains_in_block that
\* names t in the opposite list (lines 590-605 and 681-696).
Follow(tib, t, f) ==
    LET own == IF f = "previous" THEN trains[t].previous ELSE trains[t].next
    IN  IF own # <<>> THEN own[1]
        ELSE FirstReferring(tib, t, IF f = "previous" THEN "next" ELSE "previous")[1]

\* The first trip a walk from t over field f comes to for the second time.
RECURSIVE Revisited(_, _, _, _)
Revisited(tib, t, seen, f) ==
    IF t \in seen THEN t ELSE Revisited(tib, Follow(tib, t, f), seen \cup {t}, f)

\* A list of pairs is kept up to this length: a walk in a circle appends to
\* it on every turn, and longer lists differ in length only.
MaxPairs == 3

\* One more turn of a walk in a circle: the pair of the walk is appended to
\* the entry of the trip once more.
TurnAppend(tb, t) ==
    IF Len(tb[t].pairs) < MaxPairs THEN AppendPair(tb, t, tb[t].pairs[Len(tb[t].pairs)])
    ELSE tb

\* What solving the split leaves behind.
SplitOutcome(tb, tib, bid) ==
    LET sid == CHOOSE t \in SplitTrains(tib) : TRUE
    IN  SplitBranches(tb, Remove(tib, sid), bid, sid, 1)

ResolveSplit ==
    /\ Collected
    /\ IsSplit(trains_in_block)
    /\ Cardinality(SplitTrains(trains_in_block)) = 1
    /\ \E out \in {SplitOutcome(train_blocks, trains_in_block, block_id)} :
       LET sid == CHOOSE t \in SplitTrains(trains_in_block) : TRUE
       IN  /\ split_train_id' = sid
           /\ train_blocks' = out.tb
           /\ block_id' = out.bid
           /\ error' = IF out.err = "Hang" THEN NoError ELSE out.err
           /\ pc' = IF out.err = NoError THEN "solve"
                    ELSE IF out.err = "Hang" THEN "trunk_walk" ELSE "raised"
           /\ walk_train_id' =
                 IF out.err = "Hang"
                 THEN Revisited(out.tib, trains[sid].previous[1], {}, "previous")
                 ELSE walk_train_id
           /\ trains_in_block' = out.tib
    /\ UNCHANGED <<trains, through_trains, undef_trains, fetch_trips, run, first_result>>
    /\ UNCHANGED notBlocks

\* The walk over the trips before the split has come back to a trip it has
\* tagged (lines 581-605): `while prev_train_id` takes one more turn.
TrunkWalkOn ==
    /\ pc = "trunk_walk"
    /\ train_blocks' = TurnAppend(train_blocks, walk_train_id)
    /\ walk_train_id' = Follow(trains_in_block, walk_train_id, "previous")
    /\ UNCHANGED <<trains, through_trains, undef_trains, trains_in_block, fetch_trips,
                   block_id, split_train_id, pc, error, run, first_result>>
    /\ UNCHANGED notBlocks

-----------------------------------------------------------------------------
(* blocks(): a merging train (static_trains.py:610-699).                   *)

\* "Add block_id to trips before the split, while popping them from
\* trains_in_block" (lines 635-656); t has already been popped from tib.
RECURSIVE BranchBackward(_, _, _, _)
BranchBackward(tb, tib, t, bid) ==
    LET tb1 == [tb EXCEPT ![t] = Single(bid)]
        prv == IF trains[t].previous # <<>> THEN <<trains[t].previous[1]>>
               ELSE FirstReferring(tib, t, "next")
    IN  IF prv = <<>> THEN Outcome(tb1, tib, bid, NoError)
        ELSE IF ~InSeq(prv[1], tib) THEN Outcome(tb1, tib, bid, "KeyError")
        ELSE BranchBackward(tb1, Remove(tib, prv[1]), prv[1], bid)

\* "Add block_id to trips after merge" (lines 673-696): nothing is popped.
RECURSIVE TailForward(_, _, _, _, _)
TailForward(tb, tib, t, pair, seen) ==
    IF t \in seen THEN Outcome(tb, tib, pair[1], "Hang")
    ELSE IF HoldsId(tb, t) THEN Outcome(tb, tib, pair[1], "AttributeError")
    ELSE
    LET tb1 == AppendPair(tb, t, pair)
        nxt == IF trains[t].next # <<>> THEN <<trains[t].next[1]>>
               ELSE FirstReferring(tib, t, "previous")
    IN  IF nxt = <<>> THEN Outcome(tb1, tib, pair[1], NoError)
        ELSE IF ~InSeq(nxt[1], tib) THEN Outcome(tb1, tib, pair[1], "KeyError")
        ELSE TailForward(tb1, tib, nxt[1], pair, seen \cup {t})

\* The dict key under which the merging train is recorded (lines 658-662):
\* the code names split_train_id there, the id of the splitting train of the
\* last split solved in this run, not merge_train_id.
MergeKey(sid, mid) == sid

\* The loop over merge_train_data["previous"] (lines 629-699), from its i-th
\* entry on; mid has already been popped from tib, sid is split_train_id.
RECURSIVE MergeBranches(_, _, _, _, _, _)
MergeBranches(tb, tib, bid, mid, sid, i) ==
    IF i > Len(trains[mid].previous) THEN Outcome(tb, tib, bid, NoError)
    ELSE
    LET first == trains[mid].previous[i]
        key == MergeKey(sid, mid)
    IN  IF ~InSeq(first, tib) THEN Outcome(tb, tib, bid, "KeyError")
        ELSE
        Only({
            IF bwd.err # NoError THEN bwd
            ELSE IF key = Unbound
                 THEN Outcome(bwd.tb, bwd.tib, bid, "UnboundLocalError")
            ELSE IF HoldsId(bwd.tb, key)
                 THEN Outcome(bwd.tb, bwd.tib, bid, "AttributeError")
            ELSE
            LET tb2 == AppendPair(bwd.tb, key, <<bid, None>>)
            IN  IF trains[mid].next = <<>>
                THEN MergeBranches(tb2, bwd.tib, bid + 1, mid, sid, i + 1)
                ELSE IF ~InSeq(trains[mid].next[1], bwd.tib)
                     THEN Outcome(tb2, bwd.tib, bid, "KeyError")
                ELSE
                Only({IF fwd.err # NoError THEN fwd
                      ELSE MergeBranches(fwd.tb, bwd.tib, bid + 1, mid, sid, i + 1) :
                      fwd \in {TailForward(tb2, bwd.tib, trains[mid].next[1],
                                           <<bid, None>>, {})}}) :
            bwd \in {BranchBackward(tb, Remove(tib, first), first, bid)}})

\* The trips of the component that declare more than one previous trip.
MergeTrains(tib) == {t \in Range(tib) : Len(trains[t].previous) > 1}

\* More than one merging train: DataAssertion.
ResolveMergeRaise ==
    /\ Collected
    /\ IsMerge(trains_in_block)
    /\ Cardinality(MergeTrains(trains_in_block)) > 1
    /\ pc' = "raised"
    /\ error' = "DataAssertion"
    /\ UNCHANGED <<trains, through_trains, undef_trains, trains_in_block, fetch_trips,
                   block_id, split_train_id, train_blocks, run, first_result,
                   walk_train_id>>
    /\ UNCHANGED notBlocks

\* What solving the merge leaves behind.
MergeOutcome(tb, tib, bid, sid) ==
    LET mid == CHOOSE t \in MergeTrains(tib) : TRUE
    IN  MergeBranches(tb, Remove(tib, mid), bid, mid, sid, 1)

ResolveMerge ==
    /\ Collected
    /\ IsMerge(trains_in_block)
    /\ Cardinality(MergeTrains(trains_in_block)) = 1
    /\ \E out \in {MergeOutcome(train_blocks, trains_in_block, block_id,
                                 split_train_id)} :
       LET mid == CHOOSE t \in MergeTrains(trains_in_block) : TRUE
       IN  /\ train_blocks' = out.tb
           /\ block_id' = out.bid
           /\ error' = IF out.err = "Hang" THEN NoError ELSE out.err
           /\ pc' = IF out.err = NoError THEN "solve"
                    ELSE IF out.err = "Hang" THEN "tail_walk" ELSE "raised"
           /\ walk_train_id' =
                 IF out.err = "Hang"
                 THEN Revisited(out.tib, trains[mid].next[1], {}, "next")
                 ELSE walk_train_id
           /\ trains_in_block' = out.tib
    /\ UNCHANGED <<trains, through_trains, undef_trains, fetch_trips, split_train_id,
                   run, first_result>>
    /\ UNCHANGED notBlocks

\* The walk over the trips after the merge has come back to a trip it has
\* tagged (lines 673-696): `while next_train_id` takes one more turn.
TailWalkOn ==
    /\ pc = "tail_walk"
    /\ train_blocks' = TurnAppend(train_blocks, walk_train_id)
    /\ walk_train_id' = Follow(trains_in_block, walk_train_id, "next")
    /\ UNCHANGED <<trains, through_trains, undef_trains, trains_in_block, fetch_trips,
                   block_id, split_train_id, pc, error, run, first_result>>
    /\ UNCHANGED notBlocks

-----------------------------------------------------------------------------
(* blocks() as a whole.                                                    *)

Next ==
    \/ Load
    \/ LoadRaise
    \/ PopItem
    \/ Fetch
    \/ FetchFail
    \/ ResolveLinear
    \/ ResolveBoth
    \/ ResolveSplitRaise
    \/ ResolveSplit
    \/ TrunkWalkOn
    \/ ResolveMergeRaise
    \/ ResolveMerge
    \/ TailWalkOn
    \/ ResolveNothing
    \/ Return

Spec == InitBlocks /\ [][Next]_vars

-----------------------------------------------------------------------------
(* The graph the input declares, as the claims speak of it.                *)

Refs(t) == Range(trains[t].previous) \cup Range(trains[t].next)

\* The known trips t refers to or is referred to by.
Neighbours(t) == (Refs(t) \cap Known) \cup {u \in Known : t \in Refs(u)}

RECURSIVE Closure(_)
Closure(S) ==
    LET bigger == S \cup UNION {Neighbours(t) : t \in S}
    IN  IF bigger = S THEN S ELSE Closure(bigger)

\* The connected component of known trip t.
Component(t) == Closure({t})

HasDangling(C) == \E t \in C : ~(Refs(t) \subseteq Known)

\* Every reference inside C is declared on both sides.
Symmetric(C) ==
    \A t \in C : \A u \in C :
        (u \in Range(trains[t].next)) <=> (t \in Range(trains[u].previous))

RECURSIVE Downstream(_)
Downstream(S) ==
    LET bigger == S \cup UNION {Range(trains[t].next) \cap Known : t \in S}
    IN  IF bigger = S THEN S ELSE Downstream(bigger)

RECURSIVE Upstream(_)
Upstream(S) ==
    LET bigger == S \cup UNION {Range(trains[t].previous) \cap Known : t \in S}
    IN  IF bigger = S THEN S ELSE Upstream(bigger)

\* blocks() has started solving and has taken every trip of C.
Consumed(C) ==
    /\ block_id > 0
    /\ C \cap (through_trains \cup undef_trains) = {}

Returned == pc = "done"

Raised == pc = "raised"

-----------------------------------------------------------------------------
(* C1: a chain A -> B -> C, each neighbour referenced once and on both     *)
(* sides, nothing else referring to it: when blocks() has returned, the    *)
(* three trips carry the same plain block id.                              *)

IsChain3(a, b, c) ==
    /\ {a, b, c} \subseteq Known /\ a # b /\ b # c /\ a # c
    /\ trains[a].previous = <<>> /\ trains[a].next = <<b>>
    /\ trains[b].previous = <<a>> /\ trains[b].next = <<c>>
    /\ trains[c].previous = <<b>> /\ trains[c].next = <<>>
    /\ \A u \in Known \ {a, b, c} : Refs(u) \cap {a, b, c} = {}

C1_LinearChainOneBlock ==
    Returned =>
        \A a \in TripIds : \A b \in TripIds : \A c \in TripIds :
            IsChain3(a, b, c) =>
                /\ train_blocks[a] # Absent
                /\ ~train_blocks[a].list
                /\ train_blocks[b] = train_blocks[a]
                /\ train_blocks[c] = train_blocks[a]

\* The chain has been solved, and the traversal started at its middle trip.
C1_Witness ==
    /\ Returned
    /\ \E a \in TripIds : \E b \in TripIds : \E c \in TripIds :
          /\ IsChain3(a, b, c)
          /\ Len(trains_in_block) = 3 /\ trains_in_block[1] = b
          /\ train_blocks[b] = Single(block_id)

-----------------------------------------------------------------------------
(* C2: a split with trunk a and branches b (destination X) and c           *)
(* (destination Y), every reference declared on both sides: when blocks()  *)
(* has returned, every trip of b's branch carries one plain block id b1,   *)
(* every trip of c's branch another one b2, and a and every trunk trip     *)
(* upstream of a carry exactly the two pairs (b1, X) and (b2, Y).          *)

WellFormedSplit(a) ==
    /\ a \in Known
    /\ Len(trains[a].next) = 2
    /\ trains[a].next[1] # trains[a].next[2]
    /\ LET C == Component(a)
       IN  /\ ~HasDangling(C)
           /\ Symmetric(C)
           /\ \A t \in C : /\ Len(trains[t].previous) <= 1
                            /\ t # a => Len(trains[t].next) <= 1
    /\ \A b \in Range(trains[a].next) : trains[b].destination # <<>>
    /\ a \notin Downstream(Range(trains[a].next))

SplitAssigned(a) ==
    LET b == trains[a].next[1]
        c == trains[a].next[2]
        b1 == train_blocks[b].id
        b2 == train_blocks[c].id
        both == {<<b1, trains[b].destination>>, <<b2, trains[c].destination>>}
    IN  /\ b1 > 0 /\ b2 > 0 /\ b1 # b2
        /\ \A t \in Downstream({b}) : train_blocks[t] = Single(b1)
        /\ \A t \in Downstream({c}) : train_blocks[t] = Single(b2)
        /\ \A t \in Upstream({a}) :
              /\ train_blocks[t].list
              /\ Len(train_blocks[t].pairs) = 2
              /\ Range(train_blocks[t].pairs) = both

C2_SplitBranchesAndTrunk ==
    Returned => \A a \in TripIds : WellFormedSplit(a) => SplitAssigned(a)

-----------------------------------------------------------------------------
(* C3: a merge, the mirror of the split: once blocks() has taken the       *)
(* component of a merging trip m with previous trips p1 and p2 and has     *)
(* ended, every trip of p1's chain carries one plain block id b1, every    *)
(* trip of p2's chain another one b2, and m and every trip downstream of m *)
(* carry exactly the two pairs for b1 and b2.                              *)

WellFormedMerge(m) ==
    /\ m \in Known
    /\ Len(trains[m].previous) = 2
    /\ trains[m].previous[1] # trains[m].previous[2]
    /\ LET C == Component(m)
       IN  /\ ~HasDangling(C)
           /\ Symmetric(C)
           /\ \A t \in C : /\ Len(trains[t].next) <= 1
                            /\ t # m => Len(trains[t].previous) <= 1
    /\ m \notin Upstream(Range(trains[m].previous))

MergeAssigned(m) ==
    LET p1 == trains[m].previous[1]
        p2 == trains[m].previous[2]
        b1 == train_blocks[p1].id
        b2 == train_blocks[p2].id
    IN  /\ b1 > 0 /\ b2 > 0 /\ b1 # b2
        /\ \A t \in Upstream({p1}) : train_blocks[t] = Single(b1)
        /\ \A t \in Upstream({p2}) : train_blocks[t] = Single(b2)
        /\ \A t \in Downstream({m}) :
              /\ train_blocks[t].list
              /\ Len(train_blocks[t].pairs) = 2
              /\ Range(train_blocks[t].pairs) = {<<b1, None>>, <<b2, None>>}

C3_MergeBranchesAndTail ==
    (Returned \/ Raised) =>
        \A m \in TripIds :
            (WellFormedMerge(m) /\ Consumed(Component(m))) => MergeAssigned(m)

-----------------------------------------------------------------------------
(* C4: a trip declaring more than 2 next or more than 2 previous trips is  *)
(* rejected: blocks() does not return normally on an input with such a     *)
(* trip, and the trip never gets a block assignment.                       *)

MoreThanTwo(t) == Len(trains[t].next) > 2 \/ Len(trains[t].previous) > 2

C4_MoreThanTwoRejected ==
    \A t \in Known : MoreThanTwo(t) => (~Returned /\ train_blocks[t] = Absent)

-----------------------------------------------------------------------------
(* C5: a fully collected component in which some trip declares more than   *)
(* one previous trip and some trip more than one next trip makes blocks()  *)
(* raise DataAssertion, and none of its trips has a block assignment.      *)

SplitsAndMerges(tib) ==
    /\ \E t \in Range(tib) : Len(trains[t].previous) > 1
    /\ \E t \in Range(tib) : Len(trains[t].next) > 1

C5_SplitAndMergeRaises ==
    [][(Collected /\ SplitsAndMerges(trains_in_block)) =>
          /\ pc' = "raised"
          /\ error' = "DataAssertion"
          /\ \A t \in Range(trains_in_block) : train_blocks'[t] = Absent]_vars

\* blocks() has raised on such a component, whose two trips are different.
C5_Witness ==
    /\ Raised /\ error = "DataAssertion" /\ block_id > 0
    /\ SplitsAndMerges(trains_in_block)
    /\ \A t \in Range(trains_in_block) :
          Len(trains[t].previous) <= 1 \/ Len(trains[t].next) <= 1

-----------------------------------------------------------------------------
(* C6: when blocks() has returned, no trip of a connected component that   *)
(* holds a dangling reference has a block assignment.                      *)

C6_DanglingComponentUnassigned ==
    Returned =>
        \A t \in Known : HasDangling(Component(t)) => train_blocks[t] = Absent

-----------------------------------------------------------------------------
(* C7: two runs of blocks() on the same input, whatever popitem() and      *)
(* set.pop() yield, end alike: both return or both raise the same error,   *)
(* and when they return the same trips have an assignment, of the same     *)
(* kind (plain id or list of pairs), and the same groups of trips share a  *)
(* block; only the block ids may differ.                                   *)

BlockIdsOf(v) ==
    IF v.list THEN {p[1] : p \in Range(v.pairs)}
    ELSE IF v.id > 0 THEN {v.id} ELSE {}

\* The groups of trips that share a block id.
Groups(tb) ==
    {{t \in TripIds : b \in BlockIdsOf(tb[t])} :
        b \in UNION {BlockIdsOf(tb[t]) : t \in TripIds}}

Kinds(tb) ==
    [t \in TripIds |-> IF tb[t] = Absent THEN "none"
                       ELSE IF tb[t].list THEN "list" ELSE "id"]

\* What a finished run shows, up to the names of the block ids.
Result ==
    IF Returned THEN [end |-> "done", error |-> NoError,
                      kinds |-> Kinds(train_blocks), groups |-> Groups(train_blocks)]
    ELSE [end |-> pc, error |-> error, kinds |-> Kinds(NoBlocks), groups |-> {}]

\* blocks() is started again on the same input (static_trains.py:373-380).
Rerun ==
    /\ run = 1
    /\ Returned \/ Raised
    /\ first_result' = {Result}
    /\ walk_train_id' = Unbound
    /\ run' = 2
    /\ through_trains' = {}
    /\ undef_trains' = {}
    /\ trains_in_block' = <<>>
    /\ fetch_trips' = {}
    /\ block_id' = 0
    /\ split_train_id' = Unbound
    /\ train_blocks' = NoBlocks
    /\ pc' = "load"
    /\ error' = NoError
    /\ UNCHANGED trains
    /\ UNCHANGED notBlocks

NextTwice == Next \/ Rerun

SpecTwice == InitBlocks /\ [][NextTwice]_vars

C7_RunsEndAlike ==
    (run = 2 /\ (Returned \/ Raised)) => first_result = {Result}

-----------------------------------------------------------------------------
(* TimeValue (handlers.py:62-95). Strings are sequences of characters.     *)

Digits == <<"0", "1", "2", "3", "4", "5", "6", "7", "8", "9">>

IsDigit(c) == \E i \in 1..10 : Digits[i] = c

DigitVal(c) == (CHOOSE i \in 1..10 : Digits[i] = c) - 1

\* The decimal digits of n >= 0, as format() writes them.
RECURSIVE Decimal(_)
Decimal(n) ==
    IF n < 10 THEN <<Digits[n + 1]>>
    ELSE Append(Decimal(n \div 10), Digits[(n % 10) + 1])

\* format(n, "0>2"): the text of n, filled with zeros on the left up to two
\* characters; a longer text is left as it is.
Pad2(n) ==
    LET text == IF n < 0 THEN <<"-">> \o Decimal(-n) ELSE Decimal(n)
    IN  IF Len(text) < 2 THEN <<"0">> \o text ELSE text

\* Mutant of TimeValue: the hour is reduced modulo 24.
TimeValueMod24(seconds) ==
    [h |-> ((seconds \div 60) \div 60) % 24, m |-> (seconds \div 60) % 60,
     s |-> seconds % 60]

\* TimeValue.__init__: two divmod.
TimeValue(seconds) ==
    [h |-> (seconds \div 60) \div 60, m |-> (seconds \div 60) % 60, s |-> seconds % 60]

\* TimeValue.__int__
ToInt(tv) == tv.h * 3600 + tv.m * 60 + tv.s

\* TimeValue.__str__
Str(tv) == Pad2(tv.h) \o <<":">> \o Pad2(tv.m) \o <<":">> \o Pad2(tv.s)

\* Mutant of Add: the sum is reduced modulo one day.
AddWrapping(tv, other) == TimeValue((ToInt(tv) + other) % 86400)

\* TimeValue.__add__
Add(tv, other) == TimeValue(ToInt(tv) + other)

\* TimeValue.__sub__
Sub(tv, other) == TimeValue(ToInt(tv) - other)

\* TimeValue.__lt__
Lt(tv, other) == ToInt(tv) < ToInt(other)

\* TimeValue.__le__, __gt__, __ge__, __eq__, __ne__
Le(tv, other) == ToInt(tv) <= ToInt(other)

Gt(tv, other) == ToInt(tv) > ToInt(other)

Ge(tv, other) == ToInt(tv) >= ToInt(other)

Eq(tv, other) == ToInt(tv) = ToInt(other)

Ne(tv, other) == ToInt(tv) # ToInt(other)

\* str.split(":"): the fields between the colons.
RECURSIVE SplitColon(_)
SplitColon(str) ==
    IF \A i \in 1..Len(str) : str[i] # ":" THEN <<str>>
    ELSE LET k == Min({i \in 1..Len(str) : str[i] = ":"})
         IN  <<SubSeq(str, 1, k - 1)>> \o SplitColon(SubSeq(str, k + 1, Len(str)))

\* int() accepts the field (over the characters modelled: digits, ":", "x").
IsInt(field) == field # <<>> /\ \A i \in 1..Len(field) : IsDigit(field[i])

RECURSIVE IntOf(_)
IntOf(field) ==
    IF Len(field) = 1 THEN DigitVal(field[1])
    ELSE 10 * IntOf(SubSeq(field, 1, Len(field) - 1)) + DigitVal(field[Len(field)])

\* TimeValue.from_str returns a value: two or three fields, each an integer.
FromStrOk(str) ==
    LET str_split == SplitColon(str)
    IN  /\ \A i \in 1..Len(str_split) : IsInt(str_split[i])
        /\ Len(str_split) \in {2, 3}

\* TimeValue.from_str, where it returns.
from_str(str) ==
    LET str_split == SplitColon(str)
        n(i) == IntOf(str_split[i])
    IN  IF Len(str_split) = 2 THEN TimeValue(n(1) * 3600 + n(2) * 60)
        ELSE TimeValue(n(1) * 3600 + n(2) * 60 + n(3))

-----------------------------------------------------------------------------
(* The conversion of one clock string: str(TimeValue.from_str(s)).         *)

\* Bound on the hour field of the strings converted.
MaxHour == 26

TwoDigits(n) == <<Digits[(n \div 10) + 1], Digits[(n % 10) + 1]>>

Minutes == {0, 9, 10, 59}

Seconds == {0, 7, 59}

\* Zero-padded HH:MM:SS.
ClockStrings ==
    {TwoDigits(hh) \o <<":">> \o TwoDigits(mm) \o <<":">> \o TwoDigits(ss) :
        hh \in 0..MaxHour, mm \in Minutes, ss \in Seconds}

\* Zero-padded HH:MM.
ShortClockStrings ==
    {TwoDigits(hh) \o <<":">> \o TwoDigits(mm) : hh \in 0..MaxHour, mm \in Minutes}

\* Strings of other shapes.
OddStrings ==
    {<<"5", ":", "3">>, <<"1", "2">>, <<"x", ":", "0", "0">>, <<>>,
     <<"1", ":", "2", ":", "3", ":", "4">>, <<"1", "2", ":">>,
     <<"0", "0", ":", "6", "1", ":", "0", "0">>}

InitClock ==
    /\ IdleBlocks
    /\ IdleWalk
    /\ IdleRest
    /\ clock_in \in ClockStrings \cup ShortClockStrings \cup OddStrings
    /\ clock_out = <<>>
    /\ cpc = "call"

\* from_str returns and the value is written back with str().
Convert ==
    /\ cpc = "call"
    /\ FromStrOk(clock_in)
    /\ clock_out' = Str(from_str(clock_in))
    /\ cpc' = "done"
    /\ UNCHANGED clock_in
    /\ UNCHANGED notClock

\* from_str raises ValueError (from int() or from its own else branch).
ConvertRaise ==
    /\ cpc = "call"
    /\ ~FromStrOk(clock_in)
    /\ cpc' = "raised"
    /\ UNCHANGED <<clock_in, clock_out>>
    /\ UNCHANGED notClock

NextClock == Convert \/ ConvertRaise

SpecClock == InitClock /\ [][NextClock]_vars

-----------------------------------------------------------------------------
(* C10: for every zero-padded HH:MM:SS with MM < 60 and SS < 60, HH above  *)
(* 23 included, str(TimeValue.from_str(s)) is s again.                     *)

C10_ClockStringRoundTrip ==
    (cpc = "done" /\ clock_in \in ClockStrings) => clock_out = clock_in

\* 25:10:00 has been converted.
C10_Witness ==
    /\ cpc = "done"
    /\ clock_in = <<"2", "5", ":", "1", "0", ":", "0", "0">>
    /\ clock_out = clock_in

-----------------------------------------------------------------------------
(* trips(): the walk over a trip's timetable with the after-midnight fix   *)
(* (static_trains.py:788-821; the same steps in static_buses.py:364-396).  *)

\* Bound on the number of timetable entries of the trip.
MaxStops == 3

\* The raw times of the source, HH:MM; <<>> is a time the entry lacks.
RawTimes == {<<"2", "3", ":", "5", "0">>, <<"0", "0", ":", "1", "0">>,
             <<"0", "0", ":", "4", "0">>}

NoTime == <<>>

\* A timetable entry: is its station among valid_stops, and its two times.
StopTime(is_valid, arrival, departure) ==
    [valid |-> is_valid, arrival |-> arrival, departure |-> departure]

StopTimes ==
    {StopTime(TRUE, a, d) : a \in RawTimes \cup {NoTime}, d \in RawTimes \cup {NoTime}}
        \cup {StopTime(FALSE, <<"0", "0", ":", "1", "0">>, <<"0", "0", ":", "1", "0">>)}

\* "arrival = arrival or departure", "departure = departure or arrival"
ArrivalOf(stop_time) ==
    IF stop_time.arrival # NoTime THEN stop_time.arrival ELSE stop_time.departure

DepartureOf(stop_time) ==
    IF stop_time.departure # NoTime THEN stop_time.departure ELSE ArrivalOf(stop_time)

\* The entry is passed over: unknown station, or no time at all.
Skipped(stop_time) ==
    ~stop_time.valid \/ (stop_time.arrival = NoTime /\ stop_time.departure = NoTime)

\* Mutant of FixArrival: "<=" for "<".
FixArrivalOrEqual(arrival, prev) ==
    IF ToInt(arrival) <= ToInt(prev) THEN Add(arrival, 86400) ELSE arrival

\* "if arrival < prev_departure: arrival += 86400"
FixArrival(arrival, prev) == IF Lt(arrival, prev) THEN Add(arrival, 86400) ELSE arrival

\* "if departure < arrival: departure += 86400"
FixDeparture(departure, arrival) ==
    IF Lt(departure, arrival) THEN Add(departure, 86400) ELSE departure

InitWalk ==
    /\ IdleBlocks
    /\ IdleClock
    /\ IdleRest
    /\ stop_times = <<>>
    /\ times = <<>>
    /\ prev_departure = TimeValue(0)
    /\ wpc = "walk"

\* One round of the loop on an entry that is passed over.
SkipStop ==
    /\ wpc = "walk"
    /\ Len(stop_times) < MaxStops
    /\ \E stop_time \in StopTimes :
          /\ Skipped(stop_time)
          /\ stop_times' = Append(stop_times, stop_time)
    /\ UNCHANGED <<times, prev_departure, wpc>>
    /\ UNCHANGED notWalk

\* One round of the loop on an entry that gives a row.
EmitStop ==
    /\ wpc = "walk"
    /\ Len(stop_times) < MaxStops
    /\ \E stop_time \in StopTimes :
          /\ ~Skipped(stop_time)
          /\ LET arrival == FixArrival(from_str(ArrivalOf(stop_time)), prev_departure)
                 departure == FixDeparture(from_str(DepartureOf(stop_time)), arrival)
             IN  /\ prev_departure' = departure
                 /\ times' = Append(times, [stop_sequence |-> Len(stop_times),
                                            arrival_time |-> Str(arrival),
                                            departure_time |-> Str(departure)])
          /\ stop_times' = Append(stop_times, stop_time)
    /\ UNCHANGED wpc
    /\ UNCHANGED notWalk

\* The timetable has no further entry.
EndWalk ==
    /\ wpc = "walk"
    /\ wpc' = "end"
    /\ UNCHANGED <<stop_times, times, prev_departure>>
    /\ UNCHANGED notWalk

NextWalk == SkipStop \/ EmitStop \/ EndWalk

SpecWalk == InitWalk /\ [][NextWalk]_vars

\* The seconds an emitted HH:MM:SS text stands for.
Emitted(text) == ToInt(from_str(text))

-----------------------------------------------------------------------------
(* C8: the emitted times never go back along the emitted rows: at each row *)
(* arrival <= departure, and the arrival is not before the departure of    *)
(* the row emitted before.                                                 *)

C8_EmittedTimesMonotonic ==
    \A i \in 1..Len(times) :
        /\ Emitted(times[i].arrival_time) <= Emitted(times[i].departure_time)
        /\ i > 1 => Emitted(times[i].arrival_time) >= Emitted(times[i - 1].departure_time)

-----------------------------------------------------------------------------
(* C9: each row follows from the raw times and the running previous        *)
(* departure: arrival + 86400 if the raw arrival is below the running      *)
(* value, departure + 86400 if the raw departure is below the emitted      *)
(* arrival, and the running value becomes the emitted departure; so        *)
(* 23:50, 00:10, 00:40 come out as 23:50:00, 24:10:00, 24:40:00.           *)

\* The seconds a raw HH:MM text stands for.
RawSeconds(text) ==
    (10 * DigitVal(text[1]) + DigitVal(text[2])) * 3600
        + (10 * DigitVal(text[4]) + DigitVal(text[5])) * 60

\* The running value before the i-th entry, by the rule of the claim.
RECURSIVE Running(_)
Running(i) ==
    IF i = 1 THEN 0
    ELSE IF Skipped(stop_times[i - 1]) THEN Running(i - 1)
    ELSE LET a == RawSeconds(ArrivalOf(stop_times[i - 1]))
             d == RawSeconds(DepartureOf(stop_times[i - 1]))
             arr == IF a < Running(i - 1) THEN a + 86400 ELSE a
         IN  IF d < arr THEN d + 86400 ELSE d

\* The row emitted for the i-th entry of the timetable.
RowOf(i) == CHOOSE k \in 1..Len(times) : times[k].stop_sequence = i - 1

\* The entries walked are 23:50, 00:10, 00:40, arrival = departure each.
ExampleWalked ==
    /\ Len(stop_times) = 3
    /\ \A k \in 1..3 : stop_times[k].valid
    /\ \A k \in 1..3 : stop_times[k].departure = stop_times[k].arrival
    /\ stop_times[1].arrival = <<"2", "3", ":", "5", "0">>
    /\ stop_times[2].arrival = <<"0", "0", ":", "1", "0">>
    /\ stop_times[3].arrival = <<"0", "0", ":", "4", "0">>

ExampleEmitted ==
    /\ Len(times) = 3
    /\ \A k \in 1..3 : times[k].departure_time = times[k].arrival_time
    /\ times[1].arrival_time = <<"2", "3", ":", "5", "0", ":", "0", "0">>
    /\ times[2].arrival_time = <<"2", "4", ":", "1", "0", ":", "0", "0">>
    /\ times[3].arrival_time = <<"2", "4", ":", "4", "0", ":", "0", "0">>

C9_RolloverStep ==
    /\ ToInt(prev_departure) = Running(Len(stop_times) + 1)
    /\ \A i \in 1..Len(stop_times) :
          ~Skipped(stop_times[i]) =>
              LET a == RawSeconds(ArrivalOf(stop_times[i]))
                  d == RawSeconds(DepartureOf(stop_times[i]))
                  arr == IF a < Running(i) THEN a + 86400 ELSE a
              IN  /\ \E k \in 1..Len(times) : times[k].stop_sequence = i - 1
                  /\ Emitted(times[RowOf(i)].arrival_time) = arr
                  /\ Emitted(times[RowOf(i)].departure_time) =
                        IF d < arr THEN d + 86400 ELSE d
    /\ ExampleWalked => ExampleEmitted

\* 23:50, 00:10, 00:40 have been walked and their three rows emitted.
C9_Witness == wpc = "end" /\ ExampleWalked /\ Len(times) = 3

-----------------------------------------------------------------------------
(* C11: TimeValue.from_str returns a value only for a string of the shape  *)
(* HH:MM or HH:MM:SS; for a wrong number of fields, a non-numeric field or *)
(* fields that are not two digits each (such as 5:3) it raises.            *)

\* Two or three colon-separated fields of exactly two digits each.
IsClockShape(str) ==
    LET fields == SplitColon(str)
    IN  /\ Len(fields) \in {2, 3}
        /\ \A i \in 1..Len(fields) : Len(fields[i]) = 2 /\ IsInt(fields[i])

C11_OtherShapesRaise == cpc = "done" => IsClockShape(clock_in)

-----------------------------------------------------------------------------
(* The operators of TimeValue, applied to a value from_str returned: the   *)
(* callers write `arrival += 86400`, which is __add__ and a rebinding.     *)

\* Bound on the number of operators applied to one value.
MaxOps == 3

\* The strings the first value is parsed from.
StartStrings ==
    {<<"0", "0", ":", "0", "0">>, <<"0", "0", ":", "0", "1", ":", "3", "0">>,
     <<"2", "3", ":", "5", "9", ":", "5", "9">>, <<"2", "4", ":", "0", "0">>}

\* The seconds added, subtracted and compared with.
Amounts == {0, 1, 90, 86400}

InitTime ==
    /\ IdleBlocks
    /\ IdleWalk
    /\ IdleClock
    /\ IdleCal
    /\ IdleIter
    /\ IdleBus
    /\ \E str \in StartStrings : tv_self = from_str(str)
    /\ tv_other = 0
    /\ tv_result = None
    /\ tv_op = "from_str"
    /\ tv_n = 0

\* self + other: __add__ builds a new TimeValue and assigns nothing to self.
Plus ==
    /\ tv_op # "idle"
    /\ tv_n < MaxOps
    /\ \E other \in Amounts :
          /\ tv_other' = other
          /\ tv_result' = Add(tv_self, other)
    /\ tv_op' = "add"
    /\ tv_n' = tv_n + 1
    /\ UNCHANGED tv_self
    /\ UNCHANGED notTime

\* self - other
Minus ==
    /\ tv_op # "idle"
    /\ tv_n < MaxOps
    /\ \E other \in Amounts :
          /\ tv_other' = other
          /\ tv_result' = Sub(tv_self, other)
    /\ tv_op' = "sub"
    /\ tv_n' = tv_n + 1
    /\ UNCHANGED tv_self
    /\ UNCHANGED notTime

\* The six comparisons of self with TimeValue(other).
Compare ==
    /\ tv_op # "idle"
    /\ tv_n < MaxOps
    /\ \E other \in Amounts :
          /\ tv_other' = other
          /\ tv_result' = [lt |-> Lt(tv_self, TimeValue(other)),
                           le |-> Le(tv_self, TimeValue(other)),
                           gt |-> Gt(tv_self, TimeValue(other)),
                           ge |-> Ge(tv_self, TimeValue(other)),
                           eq |-> Eq(tv_self, TimeValue(other)),
                           ne |-> Ne(tv_self, TimeValue(other))]
    /\ tv_op' = "cmp"
    /\ tv_n' = tv_n + 1
    /\ UNCHANGED tv_self
    /\ UNCHANGED notTime

\* The caller binds its name to the value the operator returned.
Rebind ==
    /\ tv_op \in {"add", "sub"}
    /\ tv_self' = tv_result
    /\ tv_result' = None
    /\ tv_op' = "rebind"
    /\ UNCHANGED <<tv_other, tv_n>>
    /\ UNCHANGED notTime

NextTime == Plus \/ Minus \/ Compare \/ Rebind

SpecTime == InitTime /\ [][NextTime]_vars

-----------------------------------------------------------------------------
(* C12: addition does not wrap. For a TimeValue a of non-negative seconds  *)
(* and an integer s >= 0, a + s is a new TimeValue of exactly int(a) + s   *)
(* seconds (not reduced modulo 86400), so a + s >= a, and a is unchanged.  *)

C12_AdditionDoesNotWrap ==
    [][(tv_op' = "add" /\ ToInt(tv_self) >= 0 /\ tv_other' >= 0) =>
          /\ ToInt(tv_result') = ToInt(tv_self) + tv_other'
          /\ Ge(tv_result', tv_self)
          /\ tv_result'.m \in 0..59 /\ tv_result'.s \in 0..59
          /\ tv_self' = tv_self]_vars

\* 86400 has been added to 23:59:59 and the sum is 47:59:59.
C12_Witness ==
    /\ tv_op = "add"
    /\ tv_other = 86400
    /\ ToInt(tv_self) = 86399
    /\ Str(tv_result) = <<"4", "7", ":", "5", "9", ":", "5", "9">>

-----------------------------------------------------------------------------
(* C13: every TimeValue reached through from_str, addition and subtraction *)
(* holds a non-negative number of seconds, and the comparisons of two      *)
(* TimeValues agree with the comparison of their integer seconds.          *)

C13_NonNegativeAndOrdered ==
    /\ tv_op # "idle" => ToInt(tv_self) >= 0
    /\ tv_op \in {"add", "sub"} => ToInt(tv_result) >= 0
    /\ tv_op = "cmp" =>
          tv_result = [lt |-> ToInt(tv_self) < tv_other,
                       le |-> ToInt(tv_self) <= tv_other,
                       gt |-> ToInt(tv_self) > tv_other,
                       ge |-> ToInt(tv_self) >= tv_other,
                       eq |-> ToInt(tv_self) = tv_other,
                       ne |-> ToInt(tv_self) # tv_other]

-----------------------------------------------------------------------------
(* CalendarHandler, as TrainParser.parse() drives it: load_valid() at      *)
(* construction, use() once for every trip trips() reads, then export(),   *)
(* trips_postprocess() and times_postprocess().  Dates are day numbers,    *)
(* self.start is day 1 and self.end is day WindowDays.                     *)

\* Bound on the number of days from self.start to self.end.
WindowDays == 2

\* Bound on the number of trips trips() reads.
MaxTrips == 2

Window == 1..WindowDays

\* self.built_ins
built_ins ==
    {"Everyday", "Weekday", "SaturdayHoliday", "Holiday", "Sunday", "Monday",
     "Tuesday", "Wednesday", "Thursday", "Friday", "Saturday"}

\* date.weekday() names, Monday is 0.
DayNames ==
    <<"Monday", "Tuesday", "Wednesday", "Thursday", "Friday", "Saturday", "Sunday">>

\* The route and the calendar of the trips read: "Sp1" and "Sp2" are ids that
\* are not built in, "Bogus" is an id the Calendar source does not list.
TripCalendars ==
    ({"R1"} \X {"Holiday", "Weekday", "Tuesday", "Everyday", "Sp1", "Sp2", "Bogus"})
        \cup ({"R2"} \X {"Weekday", "Sp1"})

\* The days the Calendar source gives for "Sp1": day 0 is before self.start.
Sp1Days == {{0}, {1}, {WindowDays}, Window}

\* The Calendar source: every built-in id, "Holiday" with the days hol, "Sp1"
\* with the days sp1 and, if listed, "Sp2" with the days sp2.
Source(hol, sp1, sp2, sp2_listed) ==
    [c \in built_ins \cup {"Sp1"} \cup (IF sp2_listed THEN {"Sp2"} ELSE {}) |->
        IF c = "Holiday" THEN hol
        ELSE IF c = "Sp1" THEN sp1
        ELSE IF c = "Sp2" THEN sp2
        ELSE {}]

\* load_valid(): the days of a calendar that are inside the window.
Dates(source, calendar_id) == source[calendar_id] \cap Window

\* load_valid(): the calendars whose days are saved (not built in, some day
\* inside the window).
SpecialIds(source) ==
    {c \in DOMAIN source : c \notin built_ins /\ Dates(source, c) # {}}

\* load_valid(): self.valid
LoadValid(source) == {c \in DOMAIN source : c \in built_ins} \cup SpecialIds(source)

\* load_valid(): self.special, a dict with a key for every saved date only.
LoadSpecial(source) ==
    [date \in UNION {Dates(source, c) : c \in SpecialIds(source)} |->
        {c \in SpecialIds(source) : date \in Dates(source, c)}]

InitCal ==
    /\ IdleBlocks
    /\ IdleWalk
    /\ IdleClock
    /\ IdleTime
    /\ IdleIter
    /\ IdleBus
    /\ \E hol \in {{}, {1}}, sp1 \in Sp1Days, sp2_listed \in BOOLEAN :
          calendars = Source(hol, sp1, {1}, sp2_listed)
    /\ start_weekday \in {1, 5}
    /\ holidays \in {{}, {1}}
    /\ valid = LoadValid(calendars)
    /\ special = LoadSpecial(calendars)
    /\ used = <<>>
    /\ outputted = {}
    /\ calendar_dates = {}
    /\ route_idx = 0
    /\ working_date = 0
    /\ use_args = <<>>
    /\ use_ret = None
    /\ use_n = 0
    /\ trips_txt = {}
    /\ stop_times_txt = {}
    /\ remove_trips = {}
    /\ kpc = "trips"
    /\ kerror = NoError

\* route_id + "." + calendar_id
ServiceId(route_id, calendar_id) == <<route_id, ".", calendar_id>>

\* self.used[route_id], or the empty set where the dict has no such key.
UsedBy(u, route_id) ==
    UNION {u[i].calendars_used : i \in {j \in 1..Len(u) : u[j].route_id = route_id}}

\* use(): self.used after the calendar is listed for the route.
UseRecord(u, route_id, calendar_id) ==
    IF \E i \in 1..Len(u) : u[i].route_id = route_id
    THEN [i \in 1..Len(u) |->
            IF u[i].route_id = route_id
            THEN [u[i] EXCEPT !.calendars_used = @ \cup {calendar_id}]
            ELSE u[i]]
    ELSE Append(u, [route_id |-> route_id, calendars_used |-> {calendar_id}])

\* Mutant of UseAccepts: every calendar the source lists is accepted.
UseAcceptsListed(calendar_id) == calendar_id \in DOMAIN calendars

\* use(): the calendar can be used.
UseAccepts(calendar_id) == calendar_id \in valid

\* trips() reads one trip (of two stops or more, on a known route): use() is
\* called and, unless it returns None, the rows of the trip are written.
Use ==
    /\ kpc = "trips"
    /\ use_n < MaxTrips
    /\ \E args \in TripCalendars :
          LET route_id == args[1]
              calendar_id == args[2]
              trip_id == use_n + 1
              service_id == IF UseAccepts(calendar_id)
                            THEN ServiceId(route_id, calendar_id) ELSE None
          IN  /\ use_args' = args
              /\ use_ret' = service_id
              /\ used' = IF UseAccepts(calendar_id)
                         THEN UseRecord(used, route_id, calendar_id) ELSE used
              /\ trips_txt' =
                    IF service_id = None THEN trips_txt
                    ELSE trips_txt \cup {[trip_id |-> trip_id, service_id |-> service_id]}
              /\ stop_times_txt' =
                    IF service_id = None THEN stop_times_txt
                    ELSE stop_times_txt \cup {[trip_id |-> trip_id, stop_sequence |-> 0]}
    /\ use_n' = use_n + 1
    /\ UNCHANGED <<calendars, start_weekday, holidays, valid, special, outputted,
                   calendar_dates, route_idx, working_date, remove_trips, kpc, kerror>>
    /\ UNCHANGED notCal

\* working_date.weekday()
Weekday(date) == (start_weekday + date - 1) % 7

\* export(): the switch-case, for a date that is a key of self.special.
ActiveServices(calendars_used, date) ==
    LET weekday == Weekday(date)
        is_holiday == date \in holidays
        special_calendars == calendars_used \cap special[date]
    IN  IF special_calendars # {} THEN special_calendars
        ELSE IF is_holiday /\ "Holiday" \in calendars_used THEN {"Holiday"}
        ELSE IF is_holiday /\ "SaturdayHoliday" \in calendars_used
             THEN {"SaturdayHoliday"}
        ELSE IF DayNames[weekday + 1] \in calendars_used THEN {DayNames[weekday + 1]}
        ELSE IF weekday <= 4 /\ "Weekday" \in calendars_used THEN {"Weekday"}
        ELSE IF weekday >= 5 /\ "SaturdayHoliday" \in calendars_used
             THEN {"SaturdayHoliday"}
        ELSE IF "Everyday" \in calendars_used THEN {"Everyday"}
        ELSE {}

\* trips() has read its last trip; export() opens the file and starts on the
\* first route of self.used.
ExportOpen ==
    /\ kpc = "trips"
    /\ kpc' = "export"
    /\ route_idx' = 1
    /\ working_date' = 1
    /\ UNCHANGED <<calendars, start_weekday, holidays, valid, special, used, outputted,
                   calendar_dates, use_args, use_ret, use_n, trips_txt,
                   stop_times_txt, remove_trips, kerror>>
    /\ UNCHANGED notCal

\* export(): one turn of the while loop; after self.end, the next route.
ExportDate ==
    /\ kpc = "export"
    /\ route_idx <= Len(used)
    /\ working_date \in DOMAIN special
    /\ LET route_id == used[route_idx].route_id
           active_services ==
               ActiveServices(used[route_idx].calendars_used, working_date)
       IN  /\ outputted' =
                 outputted \cup {ServiceId(route_id, a) : a \in active_services}
           /\ calendar_dates' =
                 calendar_dates \cup
                     {[service_id |-> ServiceId(route_id, a), date |-> working_date] :
                         a \in active_services}
    /\ IF working_date + 1 <= WindowDays
       THEN working_date' = working_date + 1 /\ UNCHANGED route_idx
       ELSE working_date' = 1 /\ route_idx' = route_idx + 1
    /\ UNCHANGED <<calendars, start_weekday, holidays, valid, special, used, use_args,
                   use_ret, use_n, trips_txt, stop_times_txt, remove_trips, kpc,
                   kerror>>
    /\ UNCHANGED notCal

\* export(): self.special[working_date] with no such key.
ExportRaise ==
    /\ kpc = "export"
    /\ route_idx <= Len(used)
    /\ working_date \notin DOMAIN special
    /\ kpc' = "raised"
    /\ kerror' = "KeyError"
    /\ UNCHANGED <<calendars, start_weekday, holidays, valid, special, used, outputted,
                   calendar_dates, route_idx, working_date, use_args, use_ret, use_n,
                   trips_txt, stop_times_txt, remove_trips>>
    /\ UNCHANGED notCal

\* export(): the last route is done, the file is closed.
ExportClose ==
    /\ kpc = "export"
    /\ route_idx > Len(used)
    /\ kpc' = "exported"
    /\ UNCHANGED <<calendars, start_weekday, holidays, valid, special, used, outputted,
                   calendar_dates, route_idx, working_date, use_args, use_ret, use_n,
                   trips_txt, stop_times_txt, remove_trips, kerror>>
    /\ UNCHANGED notCal

\* Mutant of was_exported: a service_id some trip uses counts as exported.
was_exported_or_used(service_id) ==
    service_id \in outputted \/ \E row \in trips_txt : row.service_id = service_id

\* was_exported()
was_exported(service_id) == service_id \in outputted

\* trips_postprocess()
TripsPostprocess ==
    /\ kpc = "exported"
    /\ trips_txt' = {row \in trips_txt : was_exported(row.service_id)}
    /\ remove_trips' =
          remove_trips \cup
              {row.trip_id : row \in {r \in trips_txt : ~was_exported(r.service_id)}}
    /\ kpc' = "trips_postprocessed"
    /\ UNCHANGED <<calendars, start_weekday, holidays, valid, special, used, outputted,
                   calendar_dates, route_idx, working_date, use_args, use_ret, use_n,
                   stop_times_txt, kerror>>
    /\ UNCHANGED notCal

\* times_postprocess()
TimesPostprocess ==
    /\ kpc = "trips_postprocessed"
    /\ stop_times_txt' = {row \in stop_times_txt : row.trip_id \notin remove_trips}
    /\ kpc' = "done"
    /\ UNCHANGED <<calendars, start_weekday, holidays, valid, special, used, outputted,
                   calendar_dates, route_idx, working_date, use_args, use_ret, use_n,
                   trips_txt, remove_trips, kerror>>
    /\ UNCHANGED notCal

NextCal ==
    \/ Use
    \/ ExportOpen
    \/ ExportDate
    \/ ExportRaise
    \/ ExportClose
    \/ TripsPostprocess
    \/ TimesPostprocess

SpecCal == InitCal /\ [][NextCal]_vars

-----------------------------------------------------------------------------
(* Vocabulary of the calendar claims.                                      *)

\* export() has been called and has ended, by returning or by raising.
ExportEnded == kpc \in {"exported", "trips_postprocessed", "done", "raised"}

\* export() has returned.
ExportReturned == kpc \in {"exported", "trips_postprocessed", "done"}

\* The routes that use some calendar.
UsedRoutes == {used[i].route_id : i \in 1..Len(used)}

\* The day-types of the rows written for the route on the date.
RowsFor(route_id, date) ==
    {c \in valid \cup {"Bogus"} :
        [service_id |-> ServiceId(route_id, c), date |-> date] \in calendar_dates}

\* The day-types the source lists with the date and the route uses.
Scheduled(route_id, date) ==
    {c \in UsedBy(used, route_id) : c \in DOMAIN calendars /\ date \in calendars[c]}

-----------------------------------------------------------------------------
(* C14: Holiday precedes Weekday. For a route that uses exactly Holiday    *)
(* and Weekday, and a date of the window that is a holiday and a Tuesday,  *)
(* export() writes exactly one row for that date, the Holiday one.         *)

C14_HolidayBeforeWeekday ==
    ExportEnded =>
        \A route_id \in UsedRoutes : \A date \in Window :
            (/\ UsedBy(used, route_id) = {"Holiday", "Weekday"}
             /\ date \in holidays
             /\ Weekday(date) = 1)
                => RowsFor(route_id, date) = {"Holiday"}

-----------------------------------------------------------------------------
(* C15: an explicit date overrides the fallback. For every day-type, built *)
(* in or not, that the source lists with a date of the window and that a   *)
(* route uses, export() writes a row of that day-type for the route on     *)
(* that date, and every row of the route on that date is of a day-type     *)
(* scheduled explicitly on it: none comes from the holiday, weekday or     *)
(* Everyday fallback.                                                      *)

C15_ExplicitDateOverrides ==
    ExportEnded =>
        \A route_id \in UsedRoutes : \A date \in Window :
            Scheduled(route_id, date) # {} =>
                RowsFor(route_id, date) = Scheduled(route_id, date)

-----------------------------------------------------------------------------
(* C16: use(route, dayType) returns route + "." + dayType and records the  *)
(* day-type as used by the route if the day-type is valid; otherwise it    *)
(* returns None and leaves self.used and every other field as they were.   *)
(* No calendar row is ever written for a day-type that is not valid.       *)

C16_UseOnlyValid ==
    [][/\ use_n' = use_n + 1 =>
            LET route_id == use_args'[1]
                calendar_id == use_args'[2]
            IN  /\ UNCHANGED <<valid, special, holidays, outputted, calendar_dates>>
                /\ IF calendar_id \in valid
                   THEN /\ use_ret' = <<route_id, ".", calendar_id>>
                        /\ UsedBy(used', route_id) =
                              UsedBy(used, route_id) \cup {calendar_id}
                        /\ \A r \in UsedRoutes \ {route_id} :
                              UsedBy(used', r) = UsedBy(used, r)
                   ELSE use_ret' = None /\ used' = used
       /\ \A row \in calendar_dates' : row.service_id[3] \in valid'
       /\ \A i \in 1..Len(used') : used'[i].calendars_used \subseteq valid']_vars

\* use() has refused a day-type the source does not list, after it had
\* accepted one, and export() has written rows.
C16_Witness ==
    /\ kpc = "done"
    /\ use_args = <<"R1", "Bogus">>
    /\ use_ret = None
    /\ used = <<[route_id |-> "R1", calendars_used |-> {"Sp1"}]>>
    /\ calendar_dates # {}

-----------------------------------------------------------------------------
(* C17: a day with no match is not an error. For every used route and      *)
(* every date of the window, the dates with no explicitly scheduled        *)
(* day-type and the dates no used day-type matches included, export()      *)
(* returns without raising, and writes no row for a date with no match.    *)

\* No day-type the route uses applies to the date.
NoMatch(route_id, date) ==
    LET calendars_used == UsedBy(used, route_id)
    IN  /\ Scheduled(route_id, date) \ built_ins = {}
        /\ date \in holidays => calendars_used \cap {"Holiday", "SaturdayHoliday"} = {}
        /\ DayNames[Weekday(date) + 1] \notin calendars_used
        /\ Weekday(date) <= 4 => "Weekday" \notin calendars_used
        /\ Weekday(date) >= 5 => "SaturdayHoliday" \notin calendars_used
        /\ "Everyday" \notin calendars_used

C17_NoMatchIsNoError ==
    /\ kpc # "raised"
    /\ ExportReturned =>
          \A route_id \in UsedRoutes : \A date \in Window :
              NoMatch(route_id, date) => RowsFor(route_id, date) = {}

-----------------------------------------------------------------------------
(* C18: once parse() has run calendars.export(), trips_postprocess() and   *)
(* times_postprocess() in that order, every row left in trips.txt has a    *)
(* service_id with at least one calendar row, every trip whose service_id  *)
(* got no calendar row is in remove_trips, and no row of stop_times.txt    *)
(* belongs to a removed trip.                                              *)

\* Some row of calendar_dates.txt carries the service_id.
HasCalendarRow(service_id) == \E row \in calendar_dates : row.service_id = service_id

C18_TripsHaveExportedService ==
    [][/\ kpc' = "trips_postprocessed" =>
            /\ kpc = "exported"
            /\ \A row \in trips_txt :
                  IF HasCalendarRow(row.service_id)
                  THEN row \in trips_txt'
                  ELSE row \notin trips_txt' /\ row.trip_id \in remove_trips'
            /\ trips_txt' \subseteq trips_txt
       /\ kpc' = "done" =>
            /\ kpc = "trips_postprocessed"
            /\ UNCHANGED <<trips_txt, remove_trips, calendar_dates>>
            /\ \A row \in trips_txt' : HasCalendarRow(row.service_id)
            /\ \A row \in stop_times_txt' : row.trip_id \notin remove_trips'
            /\ \A row \in stop_times_txt :
                  row.trip_id \notin remove_trips' => row \in stop_times_txt']_vars

\* parse() is through: one trip was kept with its stop times and one removed.
C18_Witness ==
    /\ kpc = "done"
    /\ remove_trips = {2}
    /\ {row.trip_id : row \in trips_txt} = {1}
    /\ {row.trip_id : row \in stop_times_txt} = {1}

-----------------------------------------------------------------------------
(* TrainTripIterator: a generator over the TrainTimetable source. Time     *)
(* stamps are numbers, the conversion time is conversion_time.             *)

\* Bound on the length of the TrainTimetable source.
MaxSource == 3

\* The second argument of TrainTripIterator.
conversion_time == 1

\* The trips of the source: an id and, for some, dct:valid.
SourceTrips ==
    [sameAs : {"A", "B"}]
        \cup [sameAs : {"A", "B"},
              valid : {conversion_time - 1, conversion_time, conversion_time + 1}]

\* "dct:valid" in trip
HasValid(trip) == "valid" \in DOMAIN trip

InitIter ==
    /\ IdleBlocks
    /\ IdleWalk
    /\ IdleClock
    /\ IdleTime
    /\ IdleCal
    /\ IdleBus
    /\ \E n \in 0..MaxSource : odpt_trips \in [1..n -> SourceTrips]
    /\ trip_idx = 1
    /\ parsed_trips = {}
    /\ yielded = <<>>
    /\ ipc = "for"

\* Mutant of HasExpired: a trip valid until the conversion time is kept.
HasExpiredBefore(trip) == HasValid(trip) /\ trip.valid < conversion_time

\* The trip carries dct:valid and valid_until <= conversion_time.
HasExpired(trip) == HasValid(trip) /\ trip.valid <= conversion_time

\* The loop skips an expired trip.
SkipExpired ==
    /\ ipc = "for"
    /\ trip_idx <= Len(odpt_trips)
    /\ HasExpired(odpt_trips[trip_idx])
    /\ trip_idx' = trip_idx + 1
    /\ UNCHANGED <<odpt_trips, parsed_trips, yielded, ipc>>
    /\ UNCHANGED notIter

\* The loop skips a trip whose id it has yielded before.
SkipDuplicate ==
    /\ ipc = "for"
    /\ trip_idx <= Len(odpt_trips)
    /\ ~HasExpired(odpt_trips[trip_idx])
    /\ odpt_trips[trip_idx].sameAs \in parsed_trips
    /\ trip_idx' = trip_idx + 1
    /\ UNCHANGED <<odpt_trips, parsed_trips, yielded, ipc>>
    /\ UNCHANGED notIter

\* The trip is noted in parsed_trips and yielded.
Yield ==
    /\ ipc = "for"
    /\ trip_idx <= Len(odpt_trips)
    /\ ~HasExpired(odpt_trips[trip_idx])
    /\ odpt_trips[trip_idx].sameAs \notin parsed_trips
    /\ parsed_trips' = parsed_trips \cup {odpt_trips[trip_idx].sameAs}
    /\ yielded' = Append(yielded, odpt_trips[trip_idx])
    /\ trip_idx' = trip_idx + 1
    /\ UNCHANGED <<odpt_trips, ipc>>
    /\ UNCHANGED notIter

\* The source is exhausted.
StopIteration ==
    /\ ipc = "for"
    /\ trip_idx > Len(odpt_trips)
    /\ ipc' = "stopped"
    /\ UNCHANGED <<odpt_trips, trip_idx, parsed_trips, yielded>>
    /\ UNCHANGED notIter

NextIter == SkipExpired \/ SkipDuplicate \/ Yield \/ StopIteration

SpecIter == InitIter /\ [][NextIter]_vars

-----------------------------------------------------------------------------
(* C19: whatever the source, the yielded sequence holds each trip id at    *)
(* most once and no trip whose dct:valid is at or before the conversion    *)
(* time; a trip id with a non-expired occurrence in the source is yielded  *)
(* exactly once, as its first non-expired occurrence, in source order.     *)

\* The positions of the source read so far that hold the first occurrence of
\* their id with dct:valid absent or after the conversion time.
FirstLive ==
    {i \in 1..(trip_idx - 1) :
        /\ "valid" \in DOMAIN odpt_trips[i] => odpt_trips[i].valid > conversion_time
        /\ \A j \in 1..(i - 1) :
              odpt_trips[j].sameAs = odpt_trips[i].sameAs =>
                  ("valid" \in DOMAIN odpt_trips[j]
                      /\ odpt_trips[j].valid <= conversion_time)}

C19_YieldsLiveTripsOnce ==
    ipc # "idle" =>
        /\ \A i, j \in 1..Len(yielded) : yielded[i].sameAs = yielded[j].sameAs => i = j
        /\ \A i \in 1..Len(yielded) :
              "valid" \in DOMAIN yielded[i] => yielded[i].valid > conversion_time
        /\ Len(yielded) = Cardinality(FirstLive)
        /\ \A k \in 1..Len(yielded) :
              \E i \in FirstLive :
                  /\ yielded[k] = odpt_trips[i]
                  /\ Cardinality({j \in FirstLive : j < i}) = k - 1

\* A is expired at its first occurrence and live at its second, B comes after:
\* the second A and then B have been yielded.
C19_Witness ==
    /\ ipc = "stopped"
    /\ odpt_trips = <<[sameAs |-> "A", valid |-> conversion_time],
                      [sameAs |-> "A", valid |-> conversion_time + 1],
                      [sameAs |-> "B"]>>
    /\ yielded = <<odpt_trips[2], odpt_trips[3]>>

-----------------------------------------------------------------------------
(* C20: the block resolver has a permissive mode, in which a topology      *)
(* error gives up the offending component only and every other component   *)
(* of the run still gets its block ids, and a strict mode, in which the    *)
(* error ends the run.  blocks() takes no argument and parse() calls it    *)
(* in one way: stated for that one way, a run that met a topology error    *)
(* has still given a block id to every well-formed chain of the input.     *)

C20_OtherComponentsStillSolved ==
    (Raised /\ error = "DataAssertion") =>
        \A a \in TripIds : \A b \in TripIds : \A c \in TripIds :
            IsChain3(a, b, c) =>
                /\ train_blocks[a] # Absent
                /\ train_blocks[b] = train_blocks[a]
                /\ train_blocks[c] = train_blocks[a]

-----------------------------------------------------------------------------
(* BusParser.trips(), for one trip: the start of prev_departure, the sort  *)
(* and the filter of the timetable, and the walk over it.                  *)

\* Bound on the number of entries of odpt:busTimetableObject.
MaxBusStops == 3

\* What an entry holds besides odpt:index: odpt:isMidnight, whether its pole
\* is among valid_stops, odpt:arrivalTime and odpt:departureTime.
BusBodies ==
    {[isMidnight |-> m, valid |-> TRUE, arrival |-> t[1], departure |-> t[2]] :
        m \in BOOLEAN,
        t \in {<<<<"0", "0", ":", "1", "0">>, <<"0", "0", ":", "1", "0">>>>,
               <<<<"2", "3", ":", "5", "0">>, <<"2", "3", ":", "5", "0">>>>,
               <<NoTime, <<"0", "6", ":", "0", "0">>>>}}
        \cup {[isMidnight |-> TRUE, valid |-> FALSE,
               arrival |-> <<"0", "0", ":", "1", "0">>,
               departure |-> <<"0", "0", ":", "1", "0">>],
              [isMidnight |-> TRUE, valid |-> TRUE, arrival |-> NoTime,
               departure |-> NoTime]}

\* The orders in which the source can list n entries.
Orders(n) == {p \in [1..n -> 1..n] : \A i, j \in 1..n : p[i] = p[j] => i = j}

\* The entry of the given body at odpt:index idx.
BusEntry(body, idx) ==
    [index |-> idx, isMidnight |-> body.isMidnight, valid |-> body.valid,
     arrival |-> body.arrival, departure |-> body.departure]

InitBus ==
    /\ IdleBlocks
    /\ IdleWalk
    /\ IdleClock
    /\ IdleTime
    /\ IdleCal
    /\ IdleIter
    /\ \E n \in 0..MaxBusStops :
          \E p \in Orders(n) :
              \E bodies \in [1..n -> BusBodies] :
                  bus_source = [i \in 1..n |-> BusEntry(bodies[i], p[i])]
    /\ bus_timetable = <<>>
    /\ bus_idx = 0
    /\ bus_prev = TimeValue(0)
    /\ bus_times = <<>>
    /\ bpc = "start"
    /\ berror = NoError

\* .get("odpt:departureTime") or .get("odpt:arrivalTime")
FirstTime(entry) == IF entry.departure # NoTime THEN entry.departure ELSE entry.arrival

\* int(first_time.split(":")[0])
HourOf(str) == IntOf(SplitColon(str)[1])

\* "Do we start after midnight?": read from the entry at position 0.
StartOfPrevDeparture(timetable) ==
    IF timetable[1].isMidnight /\ HourOf(FirstTime(timetable[1])) < 6
    THEN TimeValue(86400)
    ELSE TimeValue(0)

\* sorted(..., key=lambda i: i["odpt:index"]), the indices being distinct.
RECURSIVE SortedByIndex(_)
SortedByIndex(timetable) ==
    IF timetable = <<>> THEN <<>>
    ELSE LET k == CHOOSE i \in 1..Len(timetable) :
                      \A j \in 1..Len(timetable) : timetable[i].index <= timetable[j].index
         IN  <<timetable[k]>> \o
                 SortedByIndex([i \in 1..(Len(timetable) - 1) |->
                                   IF i < k THEN timetable[i] ELSE timetable[i + 1]])

\* "Filter to only include valid stops"
ValidStops(timetable) == SelectSeq(timetable, LAMBDA entry : entry.valid)

\* The timetable is empty ([0] raises IndexError), or its entry at position 0
\* is flagged and has no time (None.split raises AttributeError).
BusStartRaises ==
    IF bus_source = <<>> THEN TRUE
    ELSE bus_source[1].isMidnight /\ FirstTime(bus_source[1]) = NoTime

BusRaise ==
    /\ bpc = "start"
    /\ BusStartRaises
    /\ bpc' = "raised"
    /\ berror' = IF bus_source = <<>> THEN "IndexError" ELSE "AttributeError"
    /\ UNCHANGED <<bus_source, bus_timetable, bus_idx, bus_prev, bus_times>>
    /\ UNCHANGED notBus

\* prev_departure is set, the timetable sorted and filtered; a trip left with
\* one stop or none is passed over.
BusPrepare ==
    /\ bpc = "start"
    /\ ~BusStartRaises
    /\ bus_prev' = StartOfPrevDeparture(bus_source)
    /\ bus_timetable' = ValidStops(SortedByIndex(bus_source))
    /\ bpc' = IF Len(bus_timetable') <= 1 THEN "skipped" ELSE "walk"
    /\ bus_idx' = 1
    /\ UNCHANGED <<bus_source, bus_times, berror>>
    /\ UNCHANGED notBus

\* One round of the loop on an entry without any time.
BusSkipStop ==
    /\ bpc = "walk"
    /\ bus_idx <= Len(bus_timetable)
    /\ bus_timetable[bus_idx].arrival = NoTime
    /\ bus_timetable[bus_idx].departure = NoTime
    /\ bus_idx' = bus_idx + 1
    /\ UNCHANGED <<bus_source, bus_timetable, bus_prev, bus_times, bpc, berror>>
    /\ UNCHANGED notBus

\* One round of the loop on an entry that gives a row.
BusEmitStop ==
    /\ bpc = "walk"
    /\ bus_idx <= Len(bus_timetable)
    /\ LET stop_time == bus_timetable[bus_idx]
       IN  /\ ~(stop_time.arrival = NoTime /\ stop_time.departure = NoTime)
           /\ LET arrival == FixArrival(from_str(ArrivalOf(stop_time)), bus_prev)
                  departure == FixDeparture(from_str(DepartureOf(stop_time)), arrival)
              IN  /\ bus_prev' = departure
                  /\ bus_times' = Append(bus_times, [stop_sequence |-> bus_idx - 1,
                                                     arrival_time |-> Str(arrival),
                                                     departure_time |-> Str(departure)])
    /\ bus_idx' = bus_idx + 1
    /\ UNCHANGED <<bus_source, bus_timetable, bpc, berror>>
    /\ UNCHANGED notBus

\* The timetable has no further entry.
BusEnd ==
    /\ bpc = "walk"
    /\ bus_idx > Len(bus_timetable)
    /\ bpc' = "end"
    /\ UNCHANGED <<bus_source, bus_timetable, bus_idx, bus_prev, bus_times, berror>>
    /\ UNCHANGED notBus

NextBus == BusRaise \/ BusPrepare \/ BusSkipStop \/ BusEmitStop \/ BusEnd

SpecBus == InitBus /\ [][NextBus]_vars

-----------------------------------------------------------------------------
(* C21: for a trip flagged as starting after midnight whose first stop in  *)
(* stop-index order has a time before 06:00 the running previous departure *)
(* starts at 86400, so that every time written for the trip is 24:00:00 or *)
(* later; for every other trip it starts at 0.                             *)

\* The entry of the source with the least odpt:index.
FirstByIndex == SortedByIndex(bus_source)[1]

\* The trip is flagged at its first stop, which has a time before 06:00.
NightTrip ==
    /\ bus_source # <<>>
    /\ FirstByIndex.isMidnight
    /\ FirstTime(FirstByIndex) # NoTime
    /\ HourOf(FirstTime(FirstByIndex)) < 6

C21_NightTripStartsAtMidnight ==
    /\ (bpc = "walk" /\ bus_idx = 1) =>
          ToInt(bus_prev) = IF NightTrip THEN 86400 ELSE 0
    /\ NightTrip =>
          \A k \in 1..Len(bus_times) :
              /\ Emitted(bus_times[k].arrival_time) >= 86400
              /\ Emitted(bus_times[k].departure_time) >= 86400

-----------------------------------------------------------------------------
(* C22: block ids are dense. When blocks() returns, the block ids that     *)
(* occur in train_blocks, as plain ids or inside pairs, are consecutive    *)
(* integers from the first id handed out (block_id starts at 0 and is      *)
(* incremented before its first use, so that id is 1), whatever the input. *)

\* The block ids that occur in train_blocks.
AssignedIds == UNION {BlockIdsOf(train_blocks[t]) : t \in TripIds}

C22_BlockIdsDense ==
    Returned => (AssignedIds = {} \/ AssignedIds = 1..Max(AssignedIds))

-----------------------------------------------------------------------------
(* C23: a trip with more than one previous and more than one next          *)
(* reference makes blocks() raise while it loads the trips, before the     *)
(* solving loop starts: train_blocks is still empty when the error leaves. *)

\* Some trip both merges and splits.
MergesAndSplits ==
    \E t \in Known : Len(trains[t].previous) > 1 /\ Len(trains[t].next) > 1

C23_MergeAndSplitTripRejected ==
    [][(/\ pc = "load" /\ MergesAndSplits =>
            /\ pc' = "raised"
            /\ error' = "DataAssertion"
            /\ train_blocks' = NoBlocks
            /\ block_id' = 0)
       /\ (MergesAndSplits => pc' \in {"load", "raised"})]_vars

\* blocks() has raised on an input in which A has two previous and two next
\* references.
C23_Witness ==
    /\ pc = "raised"
    /\ error = "DataAssertion"
    /\ Len(trains["A"].previous) = 2 /\ Len(trains["A"].next) = 2
    /\ train_blocks = NoBlocks

-----------------------------------------------------------------------------
(* C24: block ids are unique within one run. When blocks() returns, two    *)
(* trips of different connected components never carry the same block id,  *)
(* and the two branches of one split, or of one merge, never carry the     *)
(* same block id as each other.                                            *)

\* The block ids trip t carries.
IdsOf(t) == BlockIdsOf(train_blocks[t])

\* Trips b and c, each with a plain block id, carry different ones.
DifferentPlainIds(b, c) ==
    (/\ train_blocks[b] # Absent /\ ~train_blocks[b].list
     /\ train_blocks[c] # Absent /\ ~train_blocks[c].list)
        => train_blocks[b].id # train_blocks[c].id

C24_BlockIdsUnique ==
    Returned =>
        /\ \A t \in Known : \A u \in Known :
              Component(t) # Component(u) => IdsOf(t) \cap IdsOf(u) = {}
        /\ \A a \in Known :
              (WellFormedSplit(a) /\ Consumed(Component(a))) =>
                  DifferentPlainIds(trains[a].next[1], trains[a].next[2])
        /\ \A m \in Known :
              (WellFormedMerge(m) /\ Consumed(Component(m))) =>
                  DifferentPlainIds(trains[m].previous[1], trains[m].previous[2])

-----------------------------------------------------------------------------
(* C25: resolving one component changes train_blocks only for the trips of *)
(* that component. The entry of every trip outside it, a trip of a split   *)
(* resolved earlier in particular, is the same before and after a split or *)
(* a merge is resolved.                                                    *)

C25_OnlyComponentTripsChange ==
    [][\A t \in TripIds :
          train_blocks'[t] # train_blocks[t] => t \in Range(trains_in_block)]_vars

-----------------------------------------------------------------------------
(* C26: when blocks() has returned, every trip that declares a previous or *)
(* a next reference and whose connected component holds no dangling        *)
(* reference has an entry in train_blocks, whether the references of the   *)
(* component are declared on both sides or on one side only.               *)

LinkedTrip(t) == ~Isolated(t)

C26_LinkedTripsAssigned ==
    Returned =>
        \A t \in Known :
            (LinkedTrip(t) /\ ~HasDangling(Component(t))) => train_blocks[t] # Absent

-----------------------------------------------------------------------------
(* C27: blocks() terminates. The interpreter runs the one thread of        *)
(* blocks() on without pause, so every step that can be taken is taken:    *)
(* under that fairness every run reaches the return or an exception.       *)

SpecLive == InitBlocks /\ [][Next]_vars /\ WF_vars(Next)

C27_BlocksEnds == <>(Returned \/ Raised)

-----------------------------------------------------------------------------
(* C28: blocks() consumes each trip id at most once. Once the input is     *)
(* loaded, through_trains, undef_trains and the trips already taken out of *)
(* them are pairwise disjoint and together make up the loaded input; the   *)
(* component being collected holds taken trips only, each once. A trip     *)
(* enters a component only by leaving a working set, and no working set    *)
(* ever regains a trip, so no trip id is a member of two components.       *)

\* The trips blocks() holds in either working dict.
Waiting == through_trains \cup undef_trains

\* The trips already taken into some component.
Taken == Known \ Waiting

Loaded == pc # "load"

ConsumedOnce ==
    Loaded =>
        /\ through_trains \cap undef_trains = {}
        /\ Waiting \subseteq Known
        /\ Range(trains_in_block) \subseteq Taken
        /\ Cardinality(Range(trains_in_block)) = Len(trains_in_block)
        /\ \A t \in TripIds : train_blocks[t] # Absent => t \in Taken

\* The trips a step adds to the component being collected.
Joining ==
    IF trains_in_block' = trains_in_block THEN {}
    ELSE IF pc = "solve" THEN Range(trains_in_block')
    ELSE Range(trains_in_block') \ Range(trains_in_block)

TakesFromWorkingSets ==
    IF Loaded
    THEN /\ through_trains' \subseteq through_trains
         /\ undef_trains' \subseteq undef_trains
         /\ Joining = Waiting \ Waiting'
         /\ Cardinality(Joining) <= 1
    ELSE pc' = "solve" => (through_trains' \cup undef_trains' = Known)

C28_EachTripConsumedOnce == []ConsumedOnce /\ [][TakesFromWorkingSets]_vars

\* The second component of an input is being collected while linked trips
\* are still waiting.
C28_Witness ==
    /\ pc = "fetch"
    /\ block_id = 2
    /\ Len(trains_in_block) >= 2
    /\ through_trains # {}
    /\ Cardinality(Taken) >= 4

-----------------------------------------------------------------------------
(* C29: on a holiday on which the source schedules none of the day-types   *)
(* the route uses, export() writes for the route no row of a named weekday *)
(* (Monday..Sunday) and none of Weekday: every row it writes on such a     *)
(* date is of Holiday, SaturdayHoliday or Everyday.                        *)

HolidayDayTypes == {"Holiday", "SaturdayHoliday", "Everyday"}

C29_NoWeekdayOnHoliday ==
    \A route_id \in UsedRoutes : \A date \in Window :
        (date \in holidays /\ Scheduled(route_id, date) = {}) =>
            RowsFor(route_id, date) \subseteq HolidayDayTypes

-----------------------------------------------------------------------------
(* C30: when blocks() has returned, a trip that declares neither a         *)
(* previous nor a next trip has no entry in train_blocks, whether or not   *)
(* another trip names it in its previous or next list.                     *)

C30_IsolatedTripHasNoBlock ==
    Returned => \A t \in Known : Isolated(t) => train_blocks[t] = Absent

====
